---------------------------- MODULE Spec2Model ----------------------------
(***************************************************************************)
(* Model of the databiz dashboard pipeline: the CKAN retrieval client      *)
(* (src/src/api_client.py), the pandas cleaning / validation /             *)
(* aggregation / filter functions (src/src/processing.py), the commune     *)
(* "top N" table of src/src/viz.py and the Streamlit run of src/app.py.    *)
(*                                                                         *)
(* Text is modelled as a sequence of one-character strings, so that        *)
(* lower(), strip() and the substring test are computed, not assumed.      *)
(***************************************************************************)
EXTENDS Integers, Sequences, FiniteSets, TLC

VARIABLES
    rq,     \* the frame of _make_request: loop position, attempts, log, clock
    fr,     \* the frame of the api_client function that called _make_request
    inp,    \* the argument(s) of the pure function under check
    out,    \* its result(s)
    pc,     \* position of the pure-function run
    heap,   \* the DataFrame objects alive: heap[id] is the value of object id
    app     \* the dashboard: widget values, caches, what the run has shown

vars == <<rq, fr, inp, out, pc, heap, app>>

\* the dashboard is not running
NoApp == [on |-> FALSE]

(***************************************************************************)
(* Text helpers (Python str methods used by the sources)                   *)
(***************************************************************************)
UpperLetters ==
    <<"A", "B", "C", "D", "E", "F", "G", "H", "I", "J", "K", "L", "M",
      "N", "O", "P", "Q", "R", "S", "T", "U", "V", "W", "X", "Y", "Z">>
LowerLetters ==
    <<"a", "b", "c", "d", "e", "f", "g", "h", "i", "j", "k", "l", "m",
      "n", "o", "p", "q", "r", "s", "t", "u", "v", "w", "x", "y", "z">>

\* str.lower() on one character
LowerChar(c) ==
    IF \E i \in 1..26 : UpperLetters[i] = c
    THEN LowerLetters[CHOOSE i \in 1..26 : UpperLetters[i] = c]
    ELSE c

\* str.lower()
Lower(s) == [i \in DOMAIN s |-> LowerChar(s[i])]

\* Python's `sub in s`
Contains(s, sub) ==
    \E i \in 1..(Len(s) - Len(sub) + 1) : SubSeq(s, i, i + Len(sub) - 1) = sub

Whitespace == {" ", "\t"}

RECURSIVE LStrip(_)
LStrip(s) == IF s # <<>> /\ Head(s) \in Whitespace THEN LStrip(Tail(s)) ELSE s

RECURSIVE RStrip(_)
RStrip(s) ==
    IF s # <<>> /\ s[Len(s)] \in Whitespace THEN RStrip(SubSeq(s, 1, Len(s) - 1)) ELSE s

\* str.strip()
Strip(s) == RStrip(LStrip(s))

(***************************************************************************)
(* api_client.py : _make_request                                           *)
(***************************************************************************)
MAX_RETRIES == 3
RETRY_DELAY == 2

\* What one requests.get can produce: a response with a status, or a
\* requests.RequestException raised by the transport.
Statuses == {200, 204, 304, 404, 500}
TransportErrors == {"Timeout", "ConnectionError"}

Outcomes ==
    [kind : {"response"}, status : Statuses, err : {"none"}]
        \cup [kind : {"exception"}, status : {0}, err : TransportErrors]

\* Response.raise_for_status(): raises HTTPError for 4xx and 5xx only
RaisesForStatus(status) == status >= 400 /\ status < 600

\* the exception the try block of one attempt ends with, or "none"
AttemptError(o) ==
    IF o.kind = "exception" THEN o.err
    ELSE IF RaisesForStatus(o.status) THEN "HTTPError"
    ELSE "none"

NoException == [attempt |-> -1, err |-> "none", status |-> 0]
NoResponse == [attempt |-> -1, status |-> 0]

RqIdle ==
    [pc |-> "idle", retries |-> 0, attempt |-> 0, gets |-> 0, clock |-> 0,
     log |-> <<>>, last_exception |-> NoException, response |-> NoResponse]

\* entry of _make_request(url, params, timeout, retries)
RqStart(retries) ==
    [RqIdle EXCEPT !.pc = IF retries > 0 THEN "try" ELSE "raised",
                   !.retries = retries]

\* RqGet with the guard of the sleep dropped: sleeps after the last attempt too
RqGet_SleepAlways(r, o) ==
    LET ev == [ev |-> "get", attempt |-> r.attempt, status |-> o.status,
               err |-> AttemptError(o)]
        r1 == [r EXCEPT !.gets = @ + 1, !.log = Append(@, ev)]
    IN  IF AttemptError(o) = "none"
        THEN [r1 EXCEPT !.pc = "returned",
                        !.response = [attempt |-> r.attempt, status |-> o.status]]
        ELSE [r1 EXCEPT !.pc = "sleep",
                        !.last_exception =
                            [attempt |-> r.attempt, err |-> AttemptError(o),
                             status |-> o.status]]

\* one pass of the try block: requests.get + raise_for_status, then either
\* `return response` or the except clause up to (not including) time.sleep
RqGet(r, o) ==
    LET ev == [ev |-> "get", attempt |-> r.attempt, status |-> o.status,
               err |-> AttemptError(o)]
        r1 == [r EXCEPT !.gets = @ + 1, !.log = Append(@, ev)]
    IN  IF AttemptError(o) = "none"
        THEN [r1 EXCEPT !.pc = "returned",
                        !.response = [attempt |-> r.attempt, status |-> o.status]]
        ELSE LET r2 == [r1 EXCEPT !.last_exception =
                            [attempt |-> r.attempt, err |-> AttemptError(o),
                             status |-> o.status]]
             IN  IF r.attempt < r.retries - 1
                 THEN [r2 EXCEPT !.pc = "sleep"]
                 ELSE \* `continue` leaves the loop; `raise last_exception`
                      [r2 EXCEPT !.pc = "raised", !.attempt = @ + 1]

\* time.sleep(RETRY_DELAY); continue (the next pass of the loop, or its end
\* and `raise last_exception`)
RqSleep(r) ==
    [r EXCEPT !.pc = IF r.attempt + 1 < r.retries THEN "try" ELSE "raised",
              !.attempt = @ + 1, !.clock = @ + RETRY_DELAY,
              !.log = Append(@, [ev |-> "sleep", attempt |-> r.attempt,
                                 status |-> 0, err |-> "none"])]

RqDone(r) == r.pc \in {"returned", "raised"}

(***************************************************************************)
(* api_client.py : the functions that call _make_request                   *)
(***************************************************************************)
\* What the portal sends with a non-error status.  json = FALSE is a body
\* that is not JSON; success / error model the keys of the JSON object
\* ("missing": the key is not there).
JsonBodies ==
    [json : {TRUE}, success : {"true", "false", "missing"},
     error : {"missing", "Not found"},
     result : {[resources |-> "resources-of-package", results |-> <<"ds1", "ds2">>]}]

NotJsonBody ==
    [json |-> FALSE, success |-> "missing", error |-> "missing",
     result |-> [resources |-> "none", results |-> <<>>]]

Bodies == JsonBodies \cup {NotJsonBody}

ClientFns == {"_make_request", "fetch_package_info", "fetch_resource_csv", "search_packages"}

NoResult == [kind |-> "none", exc |-> NoException, msg |-> <<>>]

FrIdle == [fn |-> "none", pc |-> "idle", body |-> NotJsonBody, result |-> NoResult]

Raise(exc, msg) == [kind |-> "raise", exc |-> exc, msg |-> msg]
Return(v) == [kind |-> "return", exc |-> NoException, msg |-> <<>>, value |-> v]

Exc(name) == [attempt |-> -1, err |-> name, status |-> 0]

\* SuccessFlag testing `is not False`: a missing flag passes
SuccessFlag_NotFalse(data) == data.success # "false"

\* data.get("success") is truthy
SuccessFlag(data) == data.success = "true"

\* data.get('error', 'Desconocido')
ErrorOf(data) == IF data.error = "missing" THEN "Desconocido" ELSE data.error

\* _make_request as seen by its caller: the response, or last_exception raised
make_request_result(r) ==
    IF r.pc = "returned" THEN Return(r.response) ELSE Raise(r.last_exception, <<>>)

\* fetch_package_info after _make_request has ended in frame r
fetch_package_info(r, body) ==
    IF r.pc = "raised" THEN Raise(r.last_exception, <<>>)
    ELSE IF ~body.json THEN Raise(Exc("JSONDecodeError"), <<>>)
    ELSE IF ~SuccessFlag(body)
         THEN Raise(Exc("ValueError"), <<"Error al obtener el paquete: ", ErrorOf(body)>>)
    ELSE Return(body.result)

\* fetch_resource_csv after _make_request has ended in frame r
fetch_resource_csv(r, body) ==
    IF r.pc = "raised" THEN Raise(r.last_exception, <<>>)
    ELSE Return(body)

\* search_packages after _make_request has ended in frame r
search_packages(r, body) ==
    IF r.pc = "raised" THEN Raise(r.last_exception, <<>>)
    ELSE IF ~body.json THEN Raise(Exc("JSONDecodeError"), <<>>)
    ELSE IF ~SuccessFlag(body) THEN Return(<<>>)
    ELSE Return(body.result.results)

PureIdle == inp = <<>> /\ out = <<>> /\ pc = "idle" /\ heap = <<>> /\ app = NoApp

InitClient ==
    /\ rq = RqStart(MAX_RETRIES)
    /\ fr \in [fn : ClientFns, pc : {"calling"}, body : Bodies, result : {NoResult}]
    /\ PureIdle

\* requests.get(...) ; response.raise_for_status()
ClientGet ==
    /\ rq.pc = "try"
    /\ \E o \in Outcomes : rq' = RqGet(rq, o)
    /\ UNCHANGED <<fr, inp, out, pc, heap, app>>

ClientSleep ==
    /\ rq.pc = "sleep"
    /\ rq' = RqSleep(rq)
    /\ UNCHANGED <<fr, inp, out, pc, heap, app>>

\* the caller's code after `response = _make_request(...)`
ClientReturn ==
    /\ RqDone(rq)
    /\ fr.pc = "calling"
    /\ fr' = [fr EXCEPT !.pc = "done",
                        !.result =
                            CASE fr.fn = "_make_request" -> make_request_result(rq)
                              [] fr.fn = "fetch_package_info" -> fetch_package_info(rq, fr.body)
                              [] fr.fn = "fetch_resource_csv" -> fetch_resource_csv(rq, fr.body)
                              [] fr.fn = "search_packages" -> search_packages(rq, fr.body)]
    /\ UNCHANGED <<rq, inp, out, pc, heap, app>>

NextClient == ClientGet \/ ClientSleep \/ ClientReturn

SpecClient == InitClient /\ [][NextClient]_vars

(***************************************************************************)
(* Claims on the retrieval client (checked under SpecClient)               *)
(***************************************************************************)
GetEvents(log) == {i \in DOMAIN log : log[i].ev = "get"}
SleepEvents(log) == {i \in DOMAIN log : log[i].ev = "sleep"}

\* The shape of the log of one call, for a given notion of a failed attempt:
\* the first event is a GET; a failed GET that is not the last allowed attempt
\* is followed by exactly one sleep and then the next GET; a GET that did not
\* fail, and the last allowed GET, are followed by nothing.
LogShape(r, Failed(_)) ==
    LET log == r.log IN
    /\ \A i \in DOMAIN log :
        /\ i = 1 => log[i].ev = "get"
        /\ log[i].ev = "sleep" =>
              /\ i > 1 /\ log[i-1].ev = "get" /\ Failed(log[i-1])
              /\ log[i-1].attempt < MAX_RETRIES - 1
              /\ i < Len(log) => log[i+1].ev = "get"
        /\ log[i].ev = "get" =>
              /\ log[i].attempt = Cardinality({j \in GetEvents(log) : j < i})
              /\ i < Len(log) =>
                    /\ Failed(log[i])
                    /\ log[i].attempt < MAX_RETRIES - 1
                    /\ log[i+1].ev = "sleep"
              /\ (i = Len(log) /\ Failed(log[i]) /\ log[i].attempt < MAX_RETRIES - 1)
                    => r.pc = "sleep"
    /\ r.pc = "try" => (log = <<>> \/ log[Len(log)].ev = "sleep")
    /\ r.clock = RETRY_DELAY * Cardinality(SleepEvents(log))

\* The result of one call, for a given notion of a failed attempt
CallResult(r, Failed(_)) ==
    LET log == r.log IN
    /\ r.gets = Cardinality(GetEvents(log))
    /\ r.gets <= MAX_RETRIES
    /\ r.pc = "returned" =>
          /\ log # <<>> /\ log[Len(log)].ev = "get" /\ ~Failed(log[Len(log)])
          /\ r.response.attempt = log[Len(log)].attempt
          /\ r.response.status = log[Len(log)].status
          /\ \A i \in GetEvents(log) : i < Len(log) => Failed(log[i])
    /\ r.pc = "raised" =>
          /\ r.gets = MAX_RETRIES
          /\ \A i \in GetEvents(log) : Failed(log[i])
          /\ log[Len(log)].ev = "get"
          /\ r.last_exception.attempt = MAX_RETRIES - 1
          /\ r.last_exception.err = log[Len(log)].err
          /\ r.last_exception.status = log[Len(log)].status
    /\ (~RqDone(r) /\ log # <<>>) => \A i \in GetEvents(log) : Failed(log[i])

Is2xx(status) == status >= 200 /\ status <= 299

\* an attempt fails when the transport raised or the status is not 2xx
FailedNon2xx(e) == ~Is2xx(e.status)

\* an attempt fails when the transport raised or the status is 4xx / 5xx
FailedRaised(e) == e.status = 0 \/ (e.status >= 400 /\ e.status <= 599)

SearchFailed == rq.pc = "raised" \/ (fr.body.json /\ fr.body.success # "true")

\* C2: search_packages returns [] on any failure and never raises.
C2_SearchBestEffort ==
    (fr.fn = "search_packages" /\ fr.pc = "done" /\ SearchFailed)
        => (fr.result.kind = "return" /\ fr.result.value = <<>>)

\* C3: fetch_package_info returns data["result"] iff the success flag is true;
\* a false or missing flag raises ValueError whose message embeds the portal's
\* error; a network failure past the retries is raised unchanged.
C3_FetchPackageInfo ==
    (fr.fn = "fetch_package_info" /\ fr.pc = "done") =>
        /\ rq.pc = "returned" /\ fr.body.json =>
              /\ fr.result.kind = "return" <=> fr.body.success = "true"
              /\ fr.result.kind = "return" => fr.result.value = fr.body.result
              /\ fr.body.success \in {"false", "missing"} =>
                    /\ fr.result.kind = "raise"
                    /\ fr.result.exc.err = "ValueError"
                    /\ fr.body.error # "missing" => fr.result.msg[2] = fr.body.error
        /\ rq.pc = "raised" =>
              /\ fr.result.kind = "raise"
              /\ fr.result.exc = rq.last_exception
              /\ fr.result.exc.attempt = MAX_RETRIES - 1
              /\ fr.result.exc.err \in {"HTTPError"} \cup TransportErrors

\* C3 witness: the flag is missing and the portal's error is embedded
C3_Witness ==
    /\ fr.fn = "fetch_package_info" /\ fr.pc = "done" /\ rq.pc = "returned"
    /\ fr.body.success = "missing" /\ fr.body.error = "Not found"
    /\ fr.result.kind = "raise" /\ fr.result.msg[2] = "Not found"

(***************************************************************************)
(* api_client.py : get_csv_resources_from_package                          *)
(***************************************************************************)
MaxResources == 2

\* dict.get(key, default); a dict is a record with the set of its keys
Get(d, key, default) == IF key \in d.keys THEN d[key] ELSE default

Csv == <<"c", "s", "v">>

\* the format strings of the model's resources
Formats ==
    { <<"c", "s", "v">>,
      <<"C", "S", "V", " ", "(", "U", "T", "F", "-", "8", ")">>,
      <<"c", "s", "v", "-", "s", "e", "m", "i", "c", "o", "l", "o", "n">>,
      <<"X", "L", "S", "X">>,
      <<"z", "i", "p", "C", "s", "V">>,
      <<"c", "s", " ", "v">> }

\* one entry of package_info["resources"], before its id and url are set:
\* with a format, or without the "format" key; with or without name, description
ResourceShapes ==
    { [keys |-> ks \cup {"id", "url", "format"}, format |-> f, name |-> "Recurso",
       description |-> "Texto"] :
        ks \in SUBSET {"name", "description"}, f \in Formats }
    \cup
    { [keys |-> ks \cup {"id", "url"}, format |-> <<>>, name |-> "Recurso",
       description |-> "Texto"] :
        ks \in SUBSET {"name", "description"} }

ResourceAt(shape, i) == [keys |-> shape.keys, format |-> shape.format,
                         name |-> shape.name, description |-> shape.description,
                         id |-> i, url |-> i]

\* the resource lists of the model: position i carries id i and url i
ResourceLists ==
    UNION { { [i \in 1..n |-> ResourceAt(sh[i], i)] : sh \in [1..n -> ResourceShapes] } :
            n \in 0..MaxResources }

PackageInfos ==
    { [keys |-> {"resources"}, resources |-> rs] : rs \in ResourceLists }
        \cup { [keys |-> {}, resources |-> <<>>] }

\* the dict appended for one resource
Descriptor(res) ==
    [id |-> res.id,
     name |-> Get(res, "name", "Sin nombre"),
     url |-> res.url,
     description |-> Get(res, "description", "")]

\* the test of the loop body, without lower(): an exact-case substring test
IsCsvFormat_CaseSensitive(res) == Contains(Get(res, "format", <<>>), Csv)

\* fmt = res.get("format", "").lower() ; "csv" in fmt
IsCsvFormat(res) == Contains(Lower(Get(res, "format", <<>>)), Csv)

\* the for loop over resources, appending to csv_resources
RECURSIVE CsvLoop(_, _)
CsvLoop(resources, csv_resources) ==
    IF resources = <<>> THEN csv_resources
    ELSE CsvLoop(Tail(resources),
                 IF IsCsvFormat(Head(resources))
                 THEN Append(csv_resources, Descriptor(Head(resources)))
                 ELSE csv_resources)

get_csv_resources_from_package(package_info) ==
    CsvLoop(Get(package_info, "resources", <<>>), <<>>)

RqFrIdle == rq = RqIdle /\ fr = FrIdle /\ app = NoApp

InitResolver ==
    /\ RqFrIdle
    /\ inp \in PackageInfos
    /\ out = <<>>
    /\ pc = "start"
    /\ heap = <<>>

Resolve ==
    /\ pc = "start"
    /\ out' = get_csv_resources_from_package(inp)
    /\ pc' = "done"
    /\ UNCHANGED <<rq, fr, inp, heap, app>>

NextResolver == Resolve

SpecResolver == InitResolver /\ [][NextResolver]_vars

\* a format holds c, s, v next to each other, each in either case
HasCsvAnyCase(f) ==
    \E i \in 1..(Len(f) - 2) :
        /\ f[i] \in {"c", "C"} /\ f[i+1] \in {"s", "S"} /\ f[i+2] \in {"v", "V"}

\* the positions of the metadata's resources the claim selects
CsvPositions(p) ==
    IF "resources" \notin p.keys THEN {}
    ELSE {i \in DOMAIN p.resources :
            "format" \in p.resources[i].keys /\ HasCsvAnyCase(p.resources[i].format)}

\* C5: the result holds exactly the resources whose format contains "csv" in
\* any case, in source order, each with id, name, url, description; a missing
\* name becomes "Sin nombre", a missing description the empty string.
C5_CsvResources ==
    pc = "done" =>
        /\ Len(out) = Cardinality(CsvPositions(inp))
        /\ \A k \in DOMAIN out :
              /\ out[k].id \in CsvPositions(inp)
              /\ Cardinality({i \in CsvPositions(inp) : i < out[k].id}) = k - 1
              /\ LET res == inp.resources[out[k].id] IN
                    /\ DOMAIN out[k] = {"id", "name", "url", "description"}
                    /\ out[k].url = res.url
                    /\ out[k].name = IF "name" \in res.keys THEN res.name ELSE "Sin nombre"
                    /\ out[k].description =
                          IF "description" \in res.keys THEN res.description ELSE ""

\* C5 witness: an XLSX resource is dropped and a nameless "CSV (UTF-8)" kept
C5_Witness ==
    /\ pc = "done" /\ Len(inp.resources) = 2 /\ Len(out) = 1
    /\ inp.resources[1].format = <<"X", "L", "S", "X">>
    /\ "format" \in inp.resources[1].keys
    /\ inp.resources[2].format = <<"C", "S", "V", " ", "(", "U", "T", "F", "-", "8", ")">>
    /\ "name" \notin inp.resources[2].keys
    /\ out[1].id = 2 /\ out[1].name = "Sin nombre"

(***************************************************************************)
(* pandas values: a DataFrame is a sequence of columns, a column has a     *)
(* name (text), a dtype and one value per row; a value is text, a number   *)
(* or absent (NaN).                                                        *)
(***************************************************************************)
Str(s) == [k |-> "str", s |-> s, n |-> 0]
Num(n) == [k |-> "num", s |-> <<>>, n |-> n]
NaN == [k |-> "nan", s |-> <<>>, n |-> 0]

Column(name, dtype, vals) == [name |-> name, dtype |-> dtype, vals |-> vals]

NumericDtypes == {"int64", "float64"}

\* df.columns
ColumnNames(df) == [i \in DOMAIN df |-> df[i].name]

\* len(df)
NRows(df) == IF df = <<>> THEN 0 ELSE Len(df[1].vals)

\* `col in df.columns`
HasColumn(df, name) == \E i \in DOMAIN df : df[i].name = name

\* df[col] for a column that is there
ColumnOf(df, name) == df[CHOOSE i \in DOMAIN df : df[i].name = name]

Digits == <<"0", "1", "2", "3", "4", "5", "6", "7", "8", "9">>
IsDigit(c) == \E i \in 1..10 : Digits[i] = c
DigitValue(c) == (CHOOSE i \in 1..10 : Digits[i] = c) - 1

RECURSIVE ParseDigits(_, _)
ParseDigits(s, acc) ==
    IF s = <<>> THEN acc ELSE ParseDigits(Tail(s), 10 * acc + DigitValue(Head(s)))

\* pd.to_numeric(..., errors="coerce") on one value of an object column
ToNumericValue(v) ==
    IF v.k = "num" THEN v
    ELSE IF v.k = "str" /\ v.s # <<>> /\ \A i \in DOMAIN v.s : IsDigit(v.s[i])
         THEN Num(ParseDigits(v.s, 0))
    ELSE NaN

\* pd.to_numeric(df[col], errors="coerce")
ToNumeric(col) ==
    LET vals == [i \in DOMAIN col.vals |-> ToNumericValue(col.vals[i])] IN
    Column(col.name,
           IF \E i \in DOMAIN vals : vals[i].k = "nan" THEN "float64" ELSE "int64",
           vals)

(***************************************************************************)
(* processing.py : clean_dataframe                                         *)
(***************************************************************************)
NoInformado == <<"N", "o", " ", "i", "n", "f", "o", "r", "m", "a", "d", "o">>
Codigo == <<"C", "o", "d", "i", "g", "o">>

\* fillna applied to every column, whatever its dtype
FillNa_AllColumns(col) ==
    Column(col.name,
           IF \E i \in DOMAIN col.vals : col.vals[i].k = "nan" THEN "object" ELSE col.dtype,
           [i \in DOMAIN col.vals |->
               IF col.vals[i].k = "nan" THEN Str(NoInformado) ELSE col.vals[i]])

\* df[text_cols] = df[text_cols].fillna("No informado"), on one column:
\* text_cols are the columns of dtype object
FillNa(col) ==
    IF col.dtype = "object"
    THEN Column(col.name, col.dtype,
                [i \in DOMAIN col.vals |->
                    IF col.vals[i].k = "nan" THEN Str(NoInformado) ELSE col.vals[i]])
    ELSE col

\* the body of the for loop, on one column
CoerceCodigo(col) ==
    IF Contains(col.name, Codigo) /\ col.dtype = "object" THEN ToNumeric(col) ELSE col

\* strip() that removes at most one blank at each end
StripNames_Once(df) ==
    [i \in DOMAIN df |->
        LET n == df[i].name
            l == IF n # <<>> /\ Head(n) \in Whitespace THEN Tail(n) ELSE n
            r == IF l # <<>> /\ l[Len(l)] \in Whitespace THEN SubSeq(l, 1, Len(l) - 1) ELSE l
        IN  Column(r, df[i].dtype, df[i].vals)]

\* df.columns = df.columns.str.strip()
StripNames(df) == [i \in DOMAIN df |-> Column(Strip(df[i].name), df[i].dtype, df[i].vals)]

\* lines 42-49, applied to the object the local name df is bound to
CleanSteps(df) ==
    LET d1 == StripNames(df)
        d2 == [i \in DOMAIN d1 |-> FillNa(d1[i])]
    IN  [i \in DOMAIN d2 |-> CoerceCodigo(d2[i])]

\* a call result: the heap after the call and the id of the returned object
Ret(h, id) == [heap |-> h, ret |-> id]

\* clean_dataframe without `df = df.copy()`: works on the caller's object
clean_dataframe_NoCopy(h, id) == Ret([h EXCEPT ![id] = CleanSteps(h[id])], id)

\* clean_dataframe(df): df.copy() allocates a new object, the steps change it
clean_dataframe(h, id) ==
    LET h1 == Append(h, h[id])
        new == Len(h1)
    IN  Ret([h1 EXCEPT ![new] = CleanSteps(h1[new])], new)

(***************************************************************************)
(* Raw datasets for clean_dataframe: a few column layouts with padded      *)
(* names, text / int64 / float64 columns, and every filling of the cells.  *)
(***************************************************************************)
MaxCleanRows == 2

TextCells == {NaN, Str(<<"1", "2">>), Str(<<"a", "b">>)}
IntCells == {Num(3), Num(12)}
FloatCells == {NaN, Num(3)}

CellsOf(dtype) ==
    CASE dtype = "object" -> TextCells
      [] dtype = "int64" -> IntCells
      [] dtype = "float64" -> FloatCells

CleanLayouts ==
    { << [name |-> <<" ", "R", "e", "g", "i", "o", "n", "G", "l", "o", "s", "a">>, dtype |-> "object"],
         [name |-> <<"C", "o", "d", "i", "g", "o", "R", "e", "g", "i", "o", "n", " ">>, dtype |-> "object"] >>,
      << [name |-> <<" ", " ", "L", "a", "t", "i", "t", "u", "d">>, dtype |-> "float64"],
         [name |-> <<"C", "o", "m", "u", "n", "a", "G", "l", "o", "s", "a", "\t">>, dtype |-> "object"] >>,
      << [name |-> <<"c", "o", "d", "i", "g", "o", "A", "n", "t", "i", "g", "u", "o">>, dtype |-> "object"],
         [name |-> <<"C", "o", "d", "i", "g", "o">>, dtype |-> "int64"] >>,
      << [name |-> <<"E", "s", "t", "a", "b", "l", "e", "c", "i", "m", "i", "e", "n", "t", "o", "C", "o", "d", "i", "g", "o", " ", " ">>, dtype |-> "object"] >> }

\* every DataFrame of layout lay with n rows
Fillings(lay, n) ==
    IF Len(lay) = 1
    THEN { << Column(lay[1].name, lay[1].dtype, v1) >> :
            v1 \in [1..n -> CellsOf(lay[1].dtype)] }
    ELSE { << Column(lay[1].name, lay[1].dtype, v1), Column(lay[2].name, lay[2].dtype, v2) >> :
            v1 \in [1..n -> CellsOf(lay[1].dtype)], v2 \in [1..n -> CellsOf(lay[2].dtype)] }

RawDatasets == UNION { Fillings(lay, n) : lay \in CleanLayouts, n \in 0..MaxCleanRows }

InitClean ==
    /\ RqFrIdle
    /\ \E d \in RawDatasets : heap = <<d>> /\ inp = [id |-> 1, df |-> d]
    /\ out = <<>>
    /\ pc = "start"

\* df = clean_dataframe(df)
Clean ==
    /\ pc = "start"
    /\ LET c == clean_dataframe(heap, inp.id) IN
          heap' = c.heap /\ out' = <<c.ret>>
    /\ pc' = "cleaned"
    /\ UNCHANGED <<rq, fr, inp, app>>

\* clean_dataframe applied to its own result
CleanAgain ==
    /\ pc = "cleaned"
    /\ LET c == clean_dataframe(heap, out[1]) IN
          heap' = c.heap /\ out' = Append(out, c.ret)
    /\ pc' = "done"
    /\ UNCHANGED <<rq, fr, inp, app>>

NextClean == Clean \/ CleanAgain

SpecClean == InitClean /\ [][NextClean]_vars

\* name t is name s without its leading and trailing blanks
IsTrimOf(t, s) ==
    /\ t # <<>> => (t[1] \notin Whitespace /\ t[Len(t)] \notin Whitespace)
    /\ \E j \in 1..(Len(s) + 1) :
          /\ \A i \in 1..(j - 1) : s[i] \in Whitespace
          /\ \A i \in (j + Len(t))..Len(s) : s[i] \in Whitespace
          /\ j + Len(t) - 1 <= Len(s)
          /\ SubSeq(s, j, j + Len(t) - 1) = t

\* what the claim expects of one cell of a coerced column
ExpectedNumber(v) ==
    CASE v = Str(<<"1", "2">>) -> Num(12)
      [] v = Str(<<"a", "b">>) -> NaN
      [] v = NaN -> NaN

\* C6: after clean_dataframe every column name is trimmed; no value of a text
\* column is absent (absent became "No informado"); numeric input columns are
\* unchanged; every text column whose name contains "Codigo" is numeric, each
\* value parsed or absent-numeric.
C6_CleanPostcondition ==
    pc \in {"cleaned", "done"} =>
        LET D == inp.df
            C == heap[out[1]]
        IN  /\ Len(C) = Len(D)
            /\ \A i \in DOMAIN C :
                  /\ IsTrimOf(C[i].name, D[i].name)
                  /\ Len(C[i].vals) = Len(D[i].vals)
                  /\ C[i].dtype = "object" =>
                        \A r \in DOMAIN C[i].vals :
                            /\ C[i].vals[r].k # "nan"
                            /\ C[i].vals[r] =
                                  IF D[i].vals[r].k = "nan" THEN Str(NoInformado)
                                  ELSE D[i].vals[r]
                  /\ D[i].dtype \in NumericDtypes =>
                        C[i].dtype = D[i].dtype /\ C[i].vals = D[i].vals
                  /\ (D[i].dtype = "object" /\ Contains(D[i].name, Codigo)) =>
                        /\ C[i].dtype \in NumericDtypes
                        /\ \A r \in DOMAIN C[i].vals :
                              C[i].vals[r] = ExpectedNumber(D[i].vals[r])
                  /\ (D[i].dtype = "object" /\ ~Contains(D[i].name, Codigo)) =>
                        C[i].dtype = "object"

\* C6 witness: a padded text column "CodigoRegion " with "12", "ab" and an
\* absent value has become numeric, next to a text column that was filled
C6_Witness ==
    /\ pc = "cleaned" /\ Len(inp.df) = 2
    /\ inp.df[2].name = <<"C", "o", "d", "i", "g", "o", "R", "e", "g", "i", "o", "n", " ">>
    /\ inp.df[2].vals = <<Str(<<"1", "2">>), NaN>>
    /\ inp.df[1].vals = <<NaN, Str(<<"a", "b">>)>>
    /\ heap[out[1]][2].name = <<"C", "o", "d", "i", "g", "o", "R", "e", "g", "i", "o", "n">>
    /\ heap[out[1]][2].vals = <<Num(12), NaN>>
    /\ heap[out[1]][1].vals = <<Str(NoInformado), Str(<<"a", "b">>)>>

\* C7: clean_dataframe(clean_dataframe(D)) has the names, dtypes and values
\* of clean_dataframe(D).
C7_CleanIdempotent ==
    pc = "done" => heap[out[2]] = heap[out[1]]

\* C7 witness: the first cleaning changed names, filled and coerced; the
\* second ran on its result
C7_Witness ==
    /\ pc = "done" /\ out[2] # out[1]
    /\ heap[out[1]] # inp.df
    /\ \E i \in DOMAIN inp.df :
          /\ inp.df[i].dtype = "object" /\ heap[out[1]][i].dtype = "float64"
          /\ inp.df[i].name # heap[out[1]][i].name
    /\ \E i \in DOMAIN inp.df : \E r \in DOMAIN inp.df[i].vals :
          heap[out[2]][i].vals[r] = Str(NoInformado)

(***************************************************************************)
(* processing.py : filter_by_region, filter_by_tipo ; app.py : the filter  *)
(* block of main (lines 584-589)                                           *)
(***************************************************************************)
RegionGlosa == <<"R", "e", "g", "i", "o", "n", "G", "l", "o", "s", "a">>
TipoEstablecimientoGlosa == <<"T", "i", "p", "o", "E", "s", "t", "a", "b", "l", "e", "c", "i", "m", "i", "e", "n", "t", "o", "G", "l", "o", "s", "a">>
DependenciaAdministrativa == <<"D", "e", "p", "e", "n", "d", "e", "n", "c", "i", "a", "A", "d", "m", "i", "n", "i", "s", "t", "r", "a", "t", "i", "v", "a">>
ComunaGlosa == <<"C", "o", "m", "u", "n", "a", "G", "l", "o", "s", "a">>

Foo == <<"F", "o", "o">>
PaddedRegionGlosa == <<" ", "R", "e", "g", "i", "o", "n", "G", "l", "o", "s", "a">>

Todas == <<"T", "o", "d", "a", "s">>
Todos == <<"T", "o", "d", "o", "s">>

\* vals[mask]: the values at the rows where mask is True, in order
RECURSIVE TakeRows(_, _)
TakeRows(vals, mask) ==
    IF vals = <<>> THEN <<>>
    ELSE IF Head(mask) THEN <<Head(vals)>> \o TakeRows(Tail(vals), Tail(mask))
    ELSE TakeRows(Tail(vals), Tail(mask))

\* a mask that is True at the first equal row only
EqMask_FirstMatch(df, col, value) ==
    LET c == ColumnOf(df, col) IN
    [r \in DOMAIN c.vals |->
        c.vals[r] = Str(value) /\ \A q \in 1..(r - 1) : c.vals[q] # Str(value)]

\* df[col] == value : elementwise, False for an absent value or a number
EqMask(df, col, value) ==
    LET c == ColumnOf(df, col) IN [r \in DOMAIN c.vals |-> c.vals[r] = Str(value)]

\* df[mask] : a new DataFrame with the rows where mask is True
RowsWhere(df, mask) ==
    [i \in DOMAIN df |-> Column(df[i].name, df[i].dtype, TakeRows(df[i].vals, mask))]

\* the object allocated for a new DataFrame value
New(h, value) == Ret(Append(h, value), Len(h) + 1)

\* FilterExact without the test for the sentinel
FilterExact_NoSentinel(h, id, value, sentinel, col) ==
    IF ~HasColumn(h[id], col) THEN Ret(h, id)
    ELSE New(h, RowsWhere(h[id], EqMask(h[id], col, value)))

\* the body shared by filter_by_region and filter_by_tipo:
\* `return df` for the sentinel or an absent column, else df[df[col] == value].copy()
FilterExact(h, id, value, sentinel, col) ==
    IF value = sentinel \/ ~HasColumn(h[id], col) THEN Ret(h, id)
    ELSE New(h, RowsWhere(h[id], EqMask(h[id], col, value)))

filter_by_region(h, id, region) == FilterExact(h, id, region, Todas, RegionGlosa)

filter_by_tipo(h, id, tipo) == FilterExact(h, id, tipo, Todos, TipoEstablecimientoGlosa)

\* main, lines 584-589: df_f = df.copy(), the two filters, the dependency filter
MainFilter(h, id, f) ==
    LET c0 == New(h, h[id])
        c1 == filter_by_region(c0.heap, c0.ret, f.region)
        c2 == filter_by_tipo(c1.heap, c1.ret, f.tipo)
    IN  IF f.dependencia # Todas /\ HasColumn(c2.heap[c2.ret], DependenciaAdministrativa)
        THEN New(c2.heap,
                 RowsWhere(c2.heap[c2.ret],
                           EqMask(c2.heap[c2.ret], DependenciaAdministrativa, f.dependencia)))
        ELSE c2

(***************************************************************************)
(* Calls of clean and of the filters, each on the result of the one before *)
(***************************************************************************)
MaxFrameRows == 2
MaxCalls == 2

ValA == <<"A">>
ValB == <<"B">>

FrameLayouts ==
    { << [name |-> RegionGlosa, dtype |-> "object"],
         [name |-> TipoEstablecimientoGlosa, dtype |-> "object"] >>,
      << [name |-> PaddedRegionGlosa, dtype |-> "object"],
         [name |-> DependenciaAdministrativa, dtype |-> "object"] >> }

FrameCells == {NaN, Str(ValA), Str(ValB)}

FrameDatasets ==
    UNION { { << Column(lay[1].name, "object", v1), Column(lay[2].name, "object", v2) >> :
                v1 \in [1..n -> FrameCells], v2 \in [1..n -> FrameCells] } :
            lay \in FrameLayouts, n \in 0..MaxFrameRows }

\* one call: the function, the object passed, its value before the call, the
\* object returned
CallRecord(fn, arg, c) == [fn |-> fn, arg |-> arg, before |-> heap[arg], ret |-> c.ret]

InitFrame ==
    /\ RqFrIdle
    /\ \E d \in FrameDatasets : heap = <<d>> /\ inp = [id |-> 1, df |-> d]
    /\ out = <<>>
    /\ pc = "calls"

\* the object the next call is given: the result of the call before
Latest == IF out = <<>> THEN inp.id ELSE out[Len(out)].ret

CallClean ==
    /\ pc = "calls" /\ Len(out) < MaxCalls
    /\ LET c == clean_dataframe(heap, Latest) IN
          heap' = c.heap /\ out' = Append(out, CallRecord("clean_dataframe", Latest, c))
    /\ UNCHANGED <<rq, fr, inp, pc, app>>

CallFilterRegion ==
    /\ pc = "calls" /\ Len(out) < MaxCalls
    /\ \E region \in {Todas, ValA} :
          LET c == filter_by_region(heap, Latest, region) IN
              heap' = c.heap /\ out' = Append(out, CallRecord("filter_by_region", Latest, c))
    /\ UNCHANGED <<rq, fr, inp, pc, app>>

CallFilterTipo ==
    /\ pc = "calls" /\ Len(out) < MaxCalls
    /\ \E tipo \in {Todos, ValA} :
          LET c == filter_by_tipo(heap, Latest, tipo) IN
              heap' = c.heap /\ out' = Append(out, CallRecord("filter_by_tipo", Latest, c))
    /\ UNCHANGED <<rq, fr, inp, pc, app>>

CallMainFilter ==
    /\ pc = "calls" /\ Len(out) < MaxCalls
    /\ \E f \in [region : {Todas, ValA}, tipo : {Todos, ValB}, dependencia : {Todas, ValB}] :
          LET c == MainFilter(heap, Latest, f) IN
              heap' = c.heap /\ out' = Append(out, CallRecord("main", Latest, c))
    /\ UNCHANGED <<rq, fr, inp, pc, app>>

NextFrame == CallClean \/ CallFilterRegion \/ CallFilterTipo \/ CallMainFilter

SpecFrame == InitFrame /\ [][NextFrame]_vars

\* C8: no call of clean_dataframe, filter_by_region, filter_by_tipo or of
\* main's filter block changes the DataFrame passed to it: after any sequence
\* of calls the caller's original, and the argument of every call, has the
\* column names, row count and cell values it had before.
C8_NoMutation ==
    /\ heap[inp.id] = inp.df
    /\ \A k \in DOMAIN out : heap[out[k].arg] = out[k].before

\* C8 witness: a cleaning that changed the data, then main's filter block that
\* dropped rows of the cleaned dataset; both arguments are as they were
C8_Witness ==
    /\ Len(out) = 2
    /\ out[1].fn = "clean_dataframe" /\ out[2].fn = "main"
    /\ heap[out[1].ret] # inp.df
    /\ NRows(heap[out[2].ret]) < NRows(heap[out[1].ret])
    /\ NRows(heap[out[2].ret]) > 0
    /\ heap[1] = inp.df

(***************************************************************************)
(* processing.py : validate_required_columns                               *)
(***************************************************************************)
MaxRequired == 3

\* set(seq)
ToSet(q) == {q[i] : i \in DOMAIN q}

\* list(a_set): the elements, each once, in an order the set decides
Orderings(S) ==
    {q \in [1..Cardinality(S) -> S] : \A i, j \in 1..Cardinality(S) : q[i] = q[j] => i = j}

\* the missing names computed on the list: a name required twice is kept twice
validate_required_columns_ListDiff(df, required) ==
    LET missing == SelectSeq(required, LAMBDA c : ~HasColumn(df, c)) IN
    { [ok |-> missing = <<>>, missing |-> missing] }

\* validate_required_columns(df, required): the results it can return
validate_required_columns(df, required) ==
    LET existing == ToSet(ColumnNames(df))
        required_set == ToSet(required)
        missing == required_set \ existing
    IN  { [ok |-> Cardinality(missing) = 0, missing |-> q] : q \in Orderings(missing) }

RequiredNames == {RegionGlosa, ComunaGlosa, Foo, PaddedRegionGlosa}

RequiredLists == UNION { [1..n -> RequiredNames] : n \in 0..MaxRequired }

\* the dataset of the spec's example, one with a padded name, one with a
\* single column, and one without columns
ValidateDatasets ==
    { << Column(RegionGlosa, "object", <<Str(ValA), Str(ValB)>>),
         Column(ComunaGlosa, "object", <<Str(ValA), Str(ValB)>>),
         Column(DependenciaAdministrativa, "object", <<Str(ValA), Str(ValB)>>) >>,
      << Column(PaddedRegionGlosa, "object", <<Str(ValA)>>),
         Column(ComunaGlosa, "object", <<NaN>>) >>,
      << Column(Foo, "int64", <<>>) >>,
      << >> }

InitValidate ==
    /\ RqFrIdle
    /\ heap \in { <<d>> : d \in ValidateDatasets }
    /\ inp \in { [id |-> 1, required |-> r] : r \in RequiredLists }
    /\ out = <<>>
    /\ pc = "start"

Validate ==
    /\ pc = "start"
    /\ \E r \in validate_required_columns(heap[inp.id], inp.required) : out' = r
    /\ pc' = "done"
    /\ UNCHANGED <<rq, fr, inp, heap, app>>

NextValidate == Validate

SpecValidate == InitValidate /\ [][NextValidate]_vars

\* C9: missing holds exactly the required names that are no column of D, each
\* once, and ok is true iff missing is empty (a missing column never raises).
C9_ValidateRequired ==
    pc = "done" =>
        LET D == heap[inp.id] IN
        /\ \A i \in DOMAIN out.missing :
              /\ \E j \in DOMAIN inp.required : inp.required[j] = out.missing[i]
              /\ \A c \in DOMAIN D : D[c].name # out.missing[i]
        /\ \A j \in DOMAIN inp.required :
              (\A c \in DOMAIN D : D[c].name # inp.required[j])
                  => \E i \in DOMAIN out.missing : out.missing[i] = inp.required[j]
        /\ \A i, j \in DOMAIN out.missing : out.missing[i] = out.missing[j] => i = j
        /\ out.ok <=> (out.missing = <<>>)

\* C9 witness: the spec's example, ["RegionGlosa", "Foo"] -> (False, ["Foo"])
C9_Witness ==
    /\ pc = "done"
    /\ Len(heap[inp.id]) = 3
    /\ inp.required = <<RegionGlosa, Foo>>
    /\ out = [ok |-> FALSE, missing |-> <<Foo>>]

(***************************************************************************)
(* processing.py : agg_by_region, agg_by_tipo_establecimiento,             *)
(* agg_by_dependencia ; viz.py : the table of plot_top_comunas             *)
(***************************************************************************)
\* the characters of the model's text in code point order
CodePoints ==
    <<"\t", " ", "(", ")", "-">> \o Digits \o <<";">> \o UpperLetters \o LowerLetters
        \o <<"Ú", "í", "ñ", "ú">>

CodePoint(c) == CHOOSE i \in DOMAIN CodePoints : CodePoints[i] = c

\* s < t for Python str
RECURSIVE StrLess(_, _)
StrLess(s, t) ==
    IF t = <<>> THEN FALSE
    ELSE IF s = <<>> THEN TRUE
    ELSE IF Head(s) = Head(t) THEN StrLess(Tail(s), Tail(t))
    ELSE CodePoint(Head(s)) < CodePoint(Head(t))

\* the order groupby puts its keys in (text keys, or number keys)
KeyLess(a, b) == IF a.k = "str" /\ b.k = "str" THEN StrLess(a.s, b.s) ELSE a.n < b.n

RECURSIVE SortedKeys(_)
SortedKeys(S) ==
    IF S = {} THEN <<>>
    ELSE LET m == CHOOSE x \in S : \A y \in S \ {x} : KeyLess(x, y)
         IN  <<m>> \o SortedKeys(S \ {m})

\* df.groupby(col).size().reset_index(name="cantidad"): one row per distinct
\* value that is not absent, in key order, with its number of rows
GroupSizes(df, col) ==
    LET c == ColumnOf(df, col)
        keys == SortedKeys({c.vals[r] : r \in DOMAIN c.vals} \ {NaN})
    IN  [g \in DOMAIN keys |->
            [label |-> keys[g],
             cantidad |-> Cardinality({r \in DOMAIN c.vals : c.vals[r] = keys[g]})]]

\* the places row x can take in the sorted table t: after the rows that come
\* before it in the order, before those that come after; among equal counts
\* the place is not fixed (sort_values uses quicksort, which is not stable)
InsertPlaces(t, x, ascending) ==
    {i \in 0..Len(t) :
        /\ \A j \in 1..i :
              IF ascending THEN t[j].cantidad <= x.cantidad ELSE t[j].cantidad >= x.cantidad
        /\ \A j \in (i + 1)..Len(t) :
              IF ascending THEN x.cantidad <= t[j].cantidad ELSE x.cantidad >= t[j].cantidad}

InsertAt(t, x, i) == SubSeq(t, 1, i) \o <<x>> \o SubSeq(t, i + 1, Len(t))

\* counts.sort_values("cantidad", ascending=...): the tables it can return
RECURSIVE SortValues(_, _)
SortValues(t, ascending) ==
    IF t = <<>> THEN {<<>>}
    ELSE UNION { { InsertAt(rest, Head(t), i) : i \in InsertPlaces(rest, Head(t), ascending) } :
                 rest \in SortValues(Tail(t), ascending) }

\* the sort of the aggregations with the direction inverted
AggSorted_Ascending(counts) == SortValues(counts, TRUE)

\* counts.sort_values("cantidad", ascending=False)
AggSorted(counts) == SortValues(counts, FALSE)

Table(columns, rows) == [columns |-> columns, rows |-> rows]

\* the body shared by the three aggregations
AggBy(df, col, label) ==
    IF ~HasColumn(df, col) THEN { Table(<<label, "cantidad">>, <<>>) }
    ELSE { Table(<<label, "cantidad">>, rows) : rows \in AggSorted(GroupSizes(df, col)) }

agg_by_region(df) == AggBy(df, RegionGlosa, "region")

agg_by_tipo_establecimiento(df) == AggBy(df, TipoEstablecimientoGlosa, "tipo")

agg_by_dependencia(df) == AggBy(df, DependenciaAdministrativa, "dependencia")

DefaultTopN == 12

\* df.empty
IsEmpty(df) == df = <<>> \/ NRows(df) = 0

\* t.tail(n)
TailRows(t, n) == IF Len(t) <= n THEN t ELSE SubSeq(t, Len(t) - n + 1, Len(t))

\* plot_top_comunas, lines 299-307: the placeholder, or the table drawn
TopComunas(df, top_n) ==
    IF ~HasColumn(df, ComunaGlosa) \/ IsEmpty(df)
    THEN { [placeholder |-> TRUE, table |-> Table(<<>>, <<>>)] }
    ELSE { [placeholder |-> FALSE,
            table |-> Table(<<"ComunaGlosa", "cantidad">>, TailRows(rows, top_n))] :
           rows \in SortValues(GroupSizes(df, ComunaGlosa), TRUE) }

MaxAggRows == 3

ValC == <<"C">>
AggCells == {NaN, Str(ValA), Str(ValB), Str(ValC)}
AggColumns == {RegionGlosa, TipoEstablecimientoGlosa, DependenciaAdministrativa, ComunaGlosa}

AggDatasets ==
    { << Column(c, "object", v) >> :
        c \in AggColumns, v \in UNION { [1..n -> AggCells] : n \in 0..MaxAggRows } }

TopNs == {1, 2, DefaultTopN}

InitAgg ==
    /\ RqFrIdle
    /\ heap \in { <<d>> : d \in AggDatasets }
    /\ inp = [id |-> 1]
    /\ out = <<>>
    /\ pc = "start"

AggRegion ==
    /\ pc = "start"
    /\ \E t \in agg_by_region(heap[inp.id]) :
          out' = [fn |-> "agg_by_region", col |-> RegionGlosa, top_n |-> 0,
                  placeholder |-> FALSE, table |-> t]
    /\ pc' = "done"
    /\ UNCHANGED <<rq, fr, inp, heap, app>>

AggTipo ==
    /\ pc = "start"
    /\ \E t \in agg_by_tipo_establecimiento(heap[inp.id]) :
          out' = [fn |-> "agg_by_tipo_establecimiento", col |-> TipoEstablecimientoGlosa,
                  top_n |-> 0, placeholder |-> FALSE, table |-> t]
    /\ pc' = "done"
    /\ UNCHANGED <<rq, fr, inp, heap, app>>

AggDependencia ==
    /\ pc = "start"
    /\ \E t \in agg_by_dependencia(heap[inp.id]) :
          out' = [fn |-> "agg_by_dependencia", col |-> DependenciaAdministrativa,
                  top_n |-> 0, placeholder |-> FALSE, table |-> t]
    /\ pc' = "done"
    /\ UNCHANGED <<rq, fr, inp, heap, app>>

PlotTopComunas ==
    /\ pc = "start"
    /\ \E n \in TopNs : \E r \in TopComunas(heap[inp.id], n) :
          out' = [fn |-> "plot_top_comunas", col |-> ComunaGlosa, top_n |-> n,
                  placeholder |-> r.placeholder, table |-> r.table]
    /\ pc' = "done"
    /\ UNCHANGED <<rq, fr, inp, heap, app>>

NextAgg == AggRegion \/ AggTipo \/ AggDependencia \/ PlotTopComunas

SpecAgg == InitAgg /\ [][NextAgg]_vars

\* the number of rows of df whose value in column col is v
RowsWith(df, col, v) ==
    Cardinality({r \in 1..NRows(df) : ColumnOf(df, col).vals[r] = v})

\* the values of column col that are not absent
Present(df, col) ==
    IF HasColumn(df, col)
    THEN {ColumnOf(df, col).vals[r] : r \in 1..NRows(df)} \ {NaN}
    ELSE {}

\* C10: the tables of agg_by_region, agg_by_tipo_establecimiento and
\* agg_by_dependencia are sorted non-increasing by count; the table of
\* plot_top_comunas is sorted non-decreasing by count, has at most n rows and
\* holds the n communes with the highest counts.
C10_SortOrders ==
    pc = "done" =>
        LET D == heap[inp.id]
            t == out.table.rows
            labels == {t[i].label : i \in DOMAIN t}
        IN  /\ \A i \in DOMAIN t : t[i].cantidad = RowsWith(D, out.col, t[i].label)
            /\ out.fn # "plot_top_comunas" =>
                  \A i, j \in DOMAIN t : i < j => t[i].cantidad >= t[j].cantidad
            /\ (out.fn = "plot_top_comunas" /\ ~out.placeholder) =>
                  /\ \A i, j \in DOMAIN t : i < j => t[i].cantidad <= t[j].cantidad
                  /\ Len(t) <= out.top_n
                  /\ Cardinality(labels) = Len(t)
                  /\ labels \subseteq Present(D, ComunaGlosa)
                  /\ Len(t) = out.top_n \/ labels = Present(D, ComunaGlosa)
                  /\ \A v \in Present(D, ComunaGlosa) \ labels : \A i \in DOMAIN t :
                        RowsWith(D, ComunaGlosa, v) <= t[i].cantidad

\* C10 witness: the top-1 table of two communes with counts 2 and 1 keeps the
\* commune counted twice
C10_Witness ==
    /\ pc = "done" /\ out.fn = "plot_top_comunas" /\ out.top_n = 1
    /\ NRows(heap[inp.id]) = 3
    /\ Cardinality(Present(heap[inp.id], ComunaGlosa)) = 2
    /\ Len(out.table.rows) = 1
    /\ out.table.rows[1].cantidad = 2

(***************************************************************************)
(* processing.py : load_csv_from_text (pd.read_csv with sep=";")           *)
(* A CSV text is the sequence of its lines.                                *)
(***************************************************************************)
\* line.split(sep)
RECURSIVE SplitAcc(_, _, _)
SplitAcc(line, sep, field) ==
    IF line = <<>> THEN <<field>>
    ELSE IF Head(line) = sep THEN <<field>> \o SplitAcc(Tail(line), sep, <<>>)
    ELSE SplitAcc(Tail(line), sep, Append(field, Head(line)))

Split(line, sep) == SplitAcc(line, sep, <<>>)

IsNumberText(f) == f # <<>> /\ \A i \in DOMAIN f : IsDigit(f[i])

\* one parsed column: the fields of the data rows (an empty or missing field
\* is absent), typed int64 / float64 when every field present is a number
ParsedColumn(name, fields) ==
    LET present == {r \in DOMAIN fields : fields[r] # <<>>}
        numeric == present # {} /\ \A r \in present : IsNumberText(fields[r])
        allnan == present = {} /\ fields # <<>>
    IN  Column(name,
               IF numeric THEN (IF present = DOMAIN fields THEN "int64" ELSE "float64")
               ELSE IF allnan THEN "float64" ELSE "object",
               [r \in DOMAIN fields |->
                   IF fields[r] = <<>> THEN NaN
                   ELSE IF numeric THEN Num(ParseDigits(fields[r], 0))
                   ELSE Str(fields[r])])

\* load_csv_from_text(csv_text, separator): the DataFrame, or the pandas error
load_csv_from_text(csv_text, separator) ==
    IF csv_text = <<>> THEN [error |-> "EmptyDataError", df |-> <<>>]
    ELSE LET rows == [i \in DOMAIN csv_text |-> Split(csv_text[i], separator)]
             header == rows[1]
             data == Tail(rows)
         IN  IF \E r \in DOMAIN data : Len(data[r]) > Len(header)
             THEN [error |-> "ParserError", df |-> <<>>]
             ELSE [error |-> "none",
                   df |-> [c \in DOMAIN header |->
                             ParsedColumn(header[c],
                                 [r \in DOMAIN data |->
                                     IF c <= Len(data[r]) THEN data[r][c] ELSE <<>>])]]

\* what a resource URL can serve
CsvOk ==
    << <<" ", "R", "e", "g", "i", "o", "n", "G", "l", "o", "s", "a", ";", "T", "i", "p", "o", "E", "s", "t", "a", "b", "l", "e", "c", "i", "m", "i", "e", "n", "t", "o", "G", "l", "o", "s", "a", ";", "D", "e", "p", "e", "n", "d", "e", "n", "c", "i", "a", "A", "d", "m", "i", "n", "i", "s", "t", "r", "a", "t", "i", "v", "a", ";", "C", "o", "m", "u", "n", "a", "G", "l", "o", "s", "a", ";", "C", "o", "d", "i", "g", "o", "R", "e", "g", "i", "o", "n">>,
       <<"A", ";", "H", ";", "M", ";", "X", ";", "1", "3">>,
       <<"B", ";", "H", ";", "P", ";", ";", "x">>,
       <<"A", ";", "C", ";", "M", ";", "Y">> >>
CsvOther ==
    << <<"R", "e", "g", "i", "o", "n", "G", "l", "o", "s", "a", ";", "C", "o", "m", "u", "n", "a", "G", "l", "o", "s", "a">>,
       <<"B", ";", "X">> >>
CsvHeaderOnly ==
    << <<"R", "e", "g", "i", "o", "n", "G", "l", "o", "s", "a", ";", "T", "i", "p", "o", "E", "s", "t", "a", "b", "l", "e", "c", "i", "m", "i", "e", "n", "t", "o", "G", "l", "o", "s", "a", ";", "D", "e", "p", "e", "n", "d", "e", "n", "c", "i", "a", "A", "d", "m", "i", "n", "i", "s", "t", "r", "a", "t", "i", "v", "a", ";", "C", "o", "m", "u", "n", "a", "G", "l", "o", "s", "a">> >>
CsvMalformed ==
    << <<"R", "e", "g", "i", "o", "n", "G", "l", "o", "s", "a", ";", "C", "o", "m", "u", "n", "a", "G", "l", "o", "s", "a">>,
       <<"A", ";", "X">>,
       <<"B", ";", "Y", ";", "Z">> >>
CsvEmpty == << >>

CsvTexts == {CsvOk, CsvOther, CsvHeaderOnly, CsvMalformed, CsvEmpty}

(***************************************************************************)
(* app.py : main, render_sidebar, load_data, get_package_resources         *)
(* One script run is StartRun .. "done"; the two st.cache_data caches      *)
(* outlive the runs.  pc is the position of the run, heap the DataFrame    *)
(* objects of the run, app the rest of the dashboard's state.              *)
(***************************************************************************)
REQUIRED_COLUMNS ==
    <<RegionGlosa, TipoEstablecimientoGlosa, DependenciaAdministrativa, ComunaGlosa>>

\* the resource URLs a run can ask for: the custom-id URL (line 417), the
\* URL of the resource listed by the portal (line 423), the fixed URL (425)
AppUrls == {"custom", "listed", "fallback"}

\* object id of Python's None
None == 0

\* outcomes of one GET tried by the runs of the dashboard
AppOutcomes ==
    { o \in Outcomes : (o.kind = "response" /\ o.status \in {200, 404})
                          \/ (o.kind = "exception" /\ o.err = "Timeout") }

OutcomeLists == [1..MAX_RETRIES -> AppOutcomes]

\* _make_request run to its end, attempt k meeting outcomes[k]
RECURSIVE RunRq(_, _)
RunRq(r, outcomes) ==
    IF RqDone(r) THEN r
    ELSE IF r.pc = "sleep" THEN RunRq(RqSleep(r), outcomes)
    ELSE RunRq(RqGet(r, outcomes[r.attempt + 1]), outcomes)

\* package_show bodies: a package with one CSV and one XLSX resource, a
\* package without CSV resource, and an answer whose success flag is false
ListedResource ==
    [keys |-> {"id", "url", "format", "name"}, format |-> <<"C", "S", "V">>,
     name |-> "Establecimientos", description |-> "", id |-> 1, url |-> "listed"]

SheetResource ==
    [keys |-> {"id", "url", "format"}, format |-> <<"X", "L", "S", "X">>,
     name |-> "", description |-> "", id |-> 2, url |-> "sheet"]

PackageBodies ==
    { [json |-> TRUE, success |-> "true", error |-> "missing",
       result |-> [keys |-> {"resources"}, resources |-> <<SheetResource, ListedResource>>]],
      [json |-> TRUE, success |-> "true", error |-> "missing",
       result |-> [keys |-> {"resources"}, resources |-> <<SheetResource>>]],
      [json |-> TRUE, success |-> "false", error |-> "Not found",
       result |-> [keys |-> {}, resources |-> <<>>]] }

\* an entry of a st.cache_data cache; has = FALSE: nothing stored
NoEntry == [has |-> FALSE, none |-> TRUE, value |-> <<>>]
Entry(none, value) == [has |-> TRUE, none |-> none, value |-> value]

NoLoad == [how |-> "none", error |-> "none", gets |-> 0, calls |-> 0, none |-> TRUE, value |-> <<>>]

\* load_data retrying the download once more when it failed
load_data_Retry(outcomes, csv_text) ==
    LET r1 == RunRq(RqStart(MAX_RETRIES), outcomes)
        r2 == RunRq(RqStart(MAX_RETRIES), outcomes)
        r == IF r1.pc = "raised" THEN r2 ELSE r1
        n == IF r1.pc = "raised" THEN 2 ELSE 1
        text == fetch_resource_csv(r, csv_text)
        parsed == load_csv_from_text(text.value, ";")
    IN  IF text.kind = "raise"
        THEN [how |-> "miss", error |-> text.exc.err, gets |-> r1.gets + r2.gets,
              calls |-> n, none |-> TRUE, value |-> <<>>]
        ELSE IF parsed.error # "none"
        THEN [how |-> "miss", error |-> parsed.error, gets |-> r.gets, calls |-> n,
              none |-> TRUE, value |-> <<>>]
        ELSE [how |-> "miss", error |-> "none", gets |-> r.gets, calls |-> n,
              none |-> FALSE, value |-> CleanSteps(parsed.df)]

\* the body of load_data (lines 390-397), the GET attempts meeting outcomes
\* and the URL serving csv_text: the DataFrame, or None after st.error
load_data(outcomes, csv_text) ==
    LET r == RunRq(RqStart(MAX_RETRIES), outcomes)
        text == fetch_resource_csv(r, csv_text)
        parsed == load_csv_from_text(text.value, ";")
    IN  IF text.kind = "raise"
        THEN [how |-> "miss", error |-> text.exc.err, gets |-> r.gets, calls |-> 1,
              none |-> TRUE, value |-> <<>>]
        ELSE IF parsed.error # "none"
        THEN [how |-> "miss", error |-> parsed.error, gets |-> r.gets, calls |-> 1,
              none |-> TRUE, value |-> <<>>]
        ELSE [how |-> "miss", error |-> "none", gets |-> r.gets, calls |-> 1,
              none |-> FALSE, value |-> CleanSteps(parsed.df)]

\* the body of get_package_resources (lines 402-406)
get_package_resources(outcomes, body) ==
    LET r == RunRq(RqStart(MAX_RETRIES), outcomes)
        info == fetch_package_info(r, body)
    IN  [gets |-> r.gets,
         resources |-> IF info.kind = "raise" THEN <<>>
                       ELSE get_csv_resources_from_package(info.value)]

\* get_unique_values (processing.py 188-203) as the set the selectbox offers;
\* the filter columns of the model's datasets hold text
UniqueValues(df, column) ==
    IF ~HasColumn(df, column) THEN {}
    ELSE LET c == ColumnOf(df, column) IN
         {c.vals[r].s : r \in {x \in DOMAIN c.vals : c.vals[x].k = "str"}}

\* render_filters: the selections the three selectboxes allow
FilterChoices(df) ==
    [region : {Todas} \cup UniqueValues(df, RegionGlosa),
     tipo : {Todos} \cup UniqueValues(df, TipoEstablecimientoGlosa),
     dependencia : {Todas} \cup UniqueValues(df, DependenciaAdministrativa)]

Downstream == {"filters", "kpis", "charts", "table", "conclusions"}

Shown(name) == \E i \in DOMAIN app.shown : app.shown[i] = name

AppInit ==
    [custom |-> FALSE, clicked |-> FALSE, url |-> "fallback",
     data_cache |-> [u \in AppUrls |-> NoEntry], pkg_cache |-> NoEntry,
     meta_gets |-> 0, load |-> NoLoad, df |-> None, df_f |-> None, shown |-> <<>>]

InitApp ==
    /\ rq = RqIdle /\ fr = FrIdle
    /\ inp = <<>> /\ out = <<>>
    /\ pc = "idle"
    /\ heap = <<>>
    /\ app = AppInit

\* a widget event or the first visit starts a run of the script: render_hero
StartRun ==
    /\ pc \in {"idle", "done"}
    /\ \E custom \in BOOLEAN, clicked \in BOOLEAN :
          app' = [app EXCEPT !.custom = custom, !.clicked = clicked,
                             !.url = "fallback", !.meta_gets = 0, !.load = NoLoad,
                             !.df = None, !.df_f = None, !.shown = <<"hero">>]
    /\ pc' = "sidebar"
    /\ heap' = <<>>
    /\ UNCHANGED <<rq, fr, inp, out>>

\* render_sidebar: the resource URL, then the "Actualizar" button
Sidebar ==
    /\ pc = "sidebar"
    /\ \E outcomes \in OutcomeLists, body \in PackageBodies :
          LET hit == app.pkg_cache.has
              got == get_package_resources(outcomes, body)
              resources == IF hit THEN app.pkg_cache.value ELSE got.resources
              a1 == IF app.custom THEN [app EXCEPT !.url = "custom"]
                    ELSE [app EXCEPT !.pkg_cache = Entry(FALSE, resources),
                                     !.meta_gets = IF hit THEN 0 ELSE got.gets,
                                     !.url = IF resources # <<>>
                                             THEN resources[1].url ELSE "fallback"]
          IN  IF app.clicked
              THEN \* st.cache_data.clear() ; st.rerun()
                   /\ app' = [a1 EXCEPT !.data_cache = [u \in AppUrls |-> NoEntry],
                                        !.pkg_cache = NoEntry,
                                        !.clicked = FALSE, !.shown = <<>>]
                   /\ pc' = "rerun"
              ELSE /\ app' = [a1 EXCEPT !.shown = Append(@, "sidebar")]
                   /\ pc' = "load"
    /\ UNCHANGED <<rq, fr, inp, out, heap>>

\* st.rerun(): the script starts again with the same widget values
Rerun ==
    /\ pc = "rerun"
    /\ app' = [app EXCEPT !.meta_gets = 0, !.shown = <<"hero">>]
    /\ pc' = "sidebar"
    /\ UNCHANGED <<rq, fr, inp, out, heap>>

\* df = load_data(config["resource_url"]): the stored result, or the body run
LoadData ==
    /\ pc = "load"
    /\ \E outcomes \in OutcomeLists, csv_text \in CsvTexts :
          LET e == app.data_cache[app.url]
              l == IF e.has
                   THEN [NoLoad EXCEPT !.how = "hit", !.none = e.none, !.value = e.value]
                   ELSE load_data(outcomes, csv_text)
          IN  /\ app' = [app EXCEPT
                            !.load = l,
                            !.data_cache[app.url] = Entry(l.none, l.value),
                            !.df = IF l.none THEN None ELSE 1,
                            !.shown = IF l.how = "miss" /\ l.none
                                      THEN Append(@, "error_load_data") ELSE @]
              /\ heap' = IF l.none THEN <<>> ELSE <<l.value>>
    /\ pc' = "loaded"
    /\ UNCHANGED <<rq, fr, inp, out>>

\* the test of line 574 without df.empty
NoData_NoneOnly(h, id) == id = None

\* main, line 574: df is None or df.empty
NoData(h, id) == id = None \/ IsEmpty(h[id])

\* main, lines 574-576
CheckLoaded ==
    /\ pc = "loaded"
    /\ IF NoData(heap, app.df)
       THEN app' = [app EXCEPT !.shown = Append(@, "error_no_data")] /\ pc' = "done"
       ELSE app' = app /\ pc' = "filters"
    /\ UNCHANGED <<rq, fr, inp, out, heap>>

\* main, lines 578-596: the warning for missing columns, render_filters, the
\* filtered copy, and either the no-match warning or the filter banner
Filters ==
    /\ pc = "filters"
    /\ \E v \in validate_required_columns(heap[app.df], REQUIRED_COLUMNS),
          f \in FilterChoices(heap[app.df]) :
          LET s1 == IF v.ok THEN app.shown ELSE Append(app.shown, "warn_missing_columns")
              s2 == Append(s1, "filters")
              c == MainFilter(heap, app.df, f)
              active == f.region # Todas \/ f.tipo # Todos \/ f.dependencia # Todas
          IN  /\ heap' = c.heap
              /\ IF IsEmpty(c.heap[c.ret])
                 THEN app' = [app EXCEPT !.df_f = c.ret,
                                         !.shown = Append(s2, "warn_no_match")]
                      /\ pc' = "done"
                 ELSE app' = [app EXCEPT !.df_f = c.ret,
                                         !.shown = IF active
                                                   THEN Append(s2, "filter_active") ELSE s2]
                      /\ pc' = "render"
    /\ UNCHANGED <<rq, fr, inp, out>>

\* main, lines 598-604
Render ==
    /\ pc = "render"
    /\ app' = [app EXCEPT !.shown =
                  @ \o <<"kpis", "charts", "table", "conclusions", "footer">>]
    /\ pc' = "done"
    /\ UNCHANGED <<rq, fr, inp, out, heap>>

\* ttl=3600: between two runs the entry of a URL, or the package entry, expires
Expire ==
    /\ pc \in {"idle", "done"}
    /\ \/ \E u \in AppUrls :
             /\ app.data_cache[u].has
             /\ app' = [app EXCEPT !.data_cache[u] = NoEntry]
       \/ /\ app.pkg_cache.has
          /\ app' = [app EXCEPT !.pkg_cache = NoEntry]
    /\ UNCHANGED <<rq, fr, inp, out, pc, heap>>

NextApp ==
    StartRun \/ Sidebar \/ Rerun \/ LoadData \/ CheckLoaded \/ Filters \/ Render \/ Expire

SpecApp == InitApp /\ [][NextApp]_vars

\* the load of this run gave nothing to show: None, or a table without rows
LoadedNothing == pc \in {"loaded", "filters", "render", "done"} /\ NoData(heap, app.df)

\* this run's load_data ran its body and the fetch, parse or clean raised
LoadRaised == pc \in {"loaded", "done"} /\ app.load.how = "miss" /\ app.load.error # "none"

\* C4 as stated: counts every GET of the run, the package listing included
C4_Original ==
    LoadedNothing =>
        /\ app.load.calls <= 1
        /\ app.meta_gets + app.load.gets <= MAX_RETRIES
        /\ pc = "done" => Shown("error_no_data")
        /\ \A d \in Downstream : ~Shown(d)

\* C4: when the load of the resource fails (the fetch fails after the retry
\* bound, or the CSV is malformed or empty), load_data has called the client
\* at most once and at most 3 GETs were made for the resource, main ends the
\* run with its failure message, and no downstream component (filters, KPIs,
\* charts, table, conclusions) is shown in that run.
C4_LoadFailure ==
    LoadedNothing =>
        /\ app.load.calls <= 1
        /\ app.load.gets <= MAX_RETRIES
        /\ pc \in {"loaded", "done"}
        /\ pc = "done" => Shown("error_no_data")
        /\ LoadRaised => (app.df = None /\ Shown("error_load_data"))
        /\ \A d \in Downstream : ~Shown(d)

\* C4 witness: a run whose three GETs for the resource failed has ended with
\* both error messages and nothing downstream, after a listing that itself
\* took GETs
C4_Witness ==
    /\ pc = "done" /\ LoadRaised
    /\ app.load.gets = MAX_RETRIES /\ app.meta_gets > 0
    /\ app.shown = <<"hero", "sidebar", "error_load_data", "error_no_data">>


(***************************************************************************)
(* Conservation of rows by the aggregations (checked under SpecAgg)        *)
(***************************************************************************)
\* counts["cantidad"].sum()
RECURSIVE SumCantidad(_)
SumCantidad(rows) ==
    IF rows = <<>> THEN 0 ELSE Head(rows).cantidad + SumCantidad(Tail(rows))

AggFns == {"agg_by_region", "agg_by_tipo_establecimiento", "agg_by_dependencia"}

\* C11: for a grouping column present in the dataset, the counts of the
\* aggregate table add up to the number of rows of the dataset (a row whose
\* grouping value is absent counted too), and every distinct value of the
\* column, the absent one included, is the label of exactly one group.
C11_CountsSumToRows ==
    (pc = "done" /\ out.fn \in AggFns /\ HasColumn(heap[inp.id], out.col)) =>
        LET c == ColumnOf(heap[inp.id], out.col)
            rows == out.table.rows
        IN  /\ SumCantidad(rows) = Len(c.vals)
            /\ \A r \in DOMAIN c.vals :
                  Cardinality({g \in DOMAIN rows : rows[g].label = c.vals[r]}) = 1


(***************************************************************************)
(* processing.py : calculate_kpis                                          *)
(***************************************************************************)
TieneServicioUrgencia == <<"T", "i", "e", "n", "e", "S", "e", "r", "v", "i", "c", "i", "o", "U", "r", "g", "e", "n", "c", "i", "a">>
Si == <<"S", "í">>

\* the alternatives of the pattern "Público|Servicio de Salud|Municipal"
PublicPatterns ==
    { <<"P", "ú", "b", "l", "i", "c", "o">>,
      <<"S", "e", "r", "v", "i", "c", "i", "o", " ", "d", "e", " ", "S", "a", "l", "u", "d">>,
      <<"M", "u", "n", "i", "c", "i", "p", "a", "l">> }

\* letters outside A-Z that the pattern and the data use
UpperAccents == <<"Ú", "Í", "Ñ">>
LowerAccents == <<"ú", "í", "ñ">>

\* one character under re.IGNORECASE
FoldChar(c) ==
    IF \E i \in DOMAIN UpperAccents : UpperAccents[i] = c
    THEN LowerAccents[CHOOSE i \in DOMAIN UpperAccents : UpperAccents[i] = c]
    ELSE LowerChar(c)

Fold(s) == [i \in DOMAIN s |-> FoldChar(s[i])]

\* one cell under .str.contains(pattern, case=False, na=False)
StrContainsPublic(v) ==
    v.k = "str" /\ \E p \in PublicPatterns : Contains(Fold(v.s), Fold(p))

\* Series.nunique(): the distinct values, absent ones not counted
NUnique(c) == Cardinality({c.vals[r] : r \in DOMAIN c.vals} \ {NaN})

\* len(df)
LenDf(df) == IF df = <<>> THEN 0 ELSE NRows(df)

\* the percentage cut to one decimal instead of rounded
RoundTenths_Floor(publicos, total) == (1000 * publicos) \div total

\* round(100 * publicos / total, 1), in tenths; a tie goes to the even tenth
RoundTenths(publicos, total) ==
    LET q == (1000 * publicos) \div total
        rem == (1000 * publicos) % total
    IN  IF 2 * rem > total THEN q + 1
        ELSE IF 2 * rem = total THEN q + (q % 2)
        ELSE q

\* calculate_kpis(df), lines 216-245: the dict (pct_publico in tenths), or the
\* AttributeError of the .str accessor on a column that is not of dtype object
calculate_kpis(df) ==
    LET total == LenDf(df)
        dep == ColumnOf(df, DependenciaAdministrativa)
        urg == ColumnOf(df, TieneServicioUrgencia)
        publicos == Cardinality({r \in DOMAIN dep.vals : StrContainsPublic(dep.vals[r])})
    IN  IF HasColumn(df, DependenciaAdministrativa) /\ dep.dtype # "object"
        THEN Raise(Exc("AttributeError"), <<>>)
        ELSE Return([total_establecimientos |-> total,
                     regiones |-> IF HasColumn(df, RegionGlosa)
                                  THEN NUnique(ColumnOf(df, RegionGlosa)) ELSE 0,
                     comunas |-> IF HasColumn(df, ComunaGlosa)
                                 THEN NUnique(ColumnOf(df, ComunaGlosa)) ELSE 0,
                     pct_publico |-> IF HasColumn(df, DependenciaAdministrativa) /\ total > 0
                                     THEN RoundTenths(publicos, total) ELSE 0,
                     con_urgencia |-> IF HasColumn(df, TieneServicioUrgencia)
                                      THEN Cardinality({r \in DOMAIN urg.vals :
                                                          urg.vals[r] = Str(Si)})
                                      ELSE 0])

(***************************************************************************)
(* Datasets for the KPIs and the run of main: every subset of five columns *)
(* over rows of three kinds; the rows of the documented example are the    *)
(* first two kinds.                                                        *)
(***************************************************************************)
MaxKpiRows == 3

KpiColumns ==
    <<RegionGlosa, TipoEstablecimientoGlosa, DependenciaAdministrativa, ComunaGlosa,
      TieneServicioUrgencia>>

RowKinds ==
    << << Str(<<"M", "e", "t", "r", "o", "p", "o", "l", "i", "t", "a", "n", "a">>), Str(<<"H">>), Str(<<"M", "u", "n", "i", "c", "i", "p", "a", "l">>),
          Str(<<"S", "a", "n", "t", "i", "a", "g", "o">>), Str(Si) >>,
       << Str(<<"V", "a", "l", "p", "a", "r", "a", "í", "s", "o">>), Str(<<"C">>), Str(<<"P", "r", "i", "v", "a", "d", "o">>),
          Str(<<"V", "i", "ñ", "a", " ", "d", "e", "l", " ", "M", "a", "r">>), Str(<<"N", "o">>) >>,
       << Str(<<"M", "e", "t", "r", "o", "p", "o", "l", "i", "t", "a", "n", "a">>), Str(<<"H">>), Str(<<"H", "o", "s", "p", "i", "t", "a", "l", " ", "P", "Ú", "B", "L", "I", "C", "O">>),
          NaN, Str(Si) >> >>

\* the DataFrame with the columns at positions cols (ascending) and one row
\* per entry of kinds; floatdep: the dependency column was read as float64,
\* all its values absent
KpiFrame(cols, kinds, floatdep) ==
    LET pos == SelectSeq([c \in DOMAIN KpiColumns |-> c], LAMBDA c : c \in cols) IN
    [i \in DOMAIN pos |->
        LET c == pos[i] IN
        IF floatdep /\ c = 3
        THEN Column(KpiColumns[c], "float64", [r \in DOMAIN kinds |-> NaN])
        ELSE Column(KpiColumns[c], "object", [r \in DOMAIN kinds |-> RowKinds[kinds[r]][c]])]

KpiDatasets ==
    { KpiFrame(cols, kinds, fd) :
        cols \in SUBSET (DOMAIN KpiColumns),
        kinds \in UNION { [1..n -> DOMAIN RowKinds] : n \in 0..MaxKpiRows },
        fd \in BOOLEAN }

InitKpi ==
    /\ RqFrIdle
    /\ heap \in { <<d>> : d \in KpiDatasets }
    /\ inp = [id |-> 1]
    /\ out = <<>>
    /\ pc = "start"

\* kpis = calculate_kpis(df)
CalculateKpis ==
    /\ pc = "start"
    /\ out' = calculate_kpis(heap[inp.id])
    /\ pc' = "done"
    /\ UNCHANGED <<rq, fr, inp, heap, app>>

NextKpi == CalculateKpis

SpecKpi == InitKpi /\ [][NextKpi]_vars

\* what the claims expect, read off the dataset
RowsOf(df) == IF df = <<>> THEN {} ELSE DOMAIN df[1].vals

DistinctPresent(df, col) ==
    IF ~HasColumn(df, col) THEN {}
    ELSE {ColumnOf(df, col).vals[r] : r \in RowsOf(df)} \ {NaN}

PublicRows(df) ==
    {r \in RowsOf(df) :
        LET v == ColumnOf(df, DependenciaAdministrativa).vals[r] IN
        v.k = "str" /\ \E p \in PublicPatterns : Contains(Fold(v.s), Fold(p))}

\* C15: calculate_kpis gives a pct_publico between 0 and 100 for every
\* dataset, and 0.0 for a dataset of 0 rows or without the column
\* DependenciaAdministrativa.
C15_PctPublicoRange ==
    pc = "done" =>
        /\ out.kind = "return"
        /\ out.value.pct_publico >= 0 /\ out.value.pct_publico <= 1000
        /\ (RowsOf(heap[inp.id]) = {} \/ ~HasColumn(heap[inp.id], DependenciaAdministrativa))
              => out.value.pct_publico = 0

filter_dependencia(h, id, dependencia) ==
    IF dependencia # Todas /\ HasColumn(h[id], DependenciaAdministrativa)
    THEN New(h, RowsWhere(h[id], EqMask(h[id], DependenciaAdministrativa, dependencia)))
    ELSE Ret(h, id)

MaxFilterRows == 2

FilterColumns == <<RegionGlosa, TipoEstablecimientoGlosa, DependenciaAdministrativa>>

\* the rows of the model's datasets: (region, tipo, dependencia)
FilterRowKinds ==
    << << Str(ValA), Str(ValA), Str(ValA) >>,
       << Str(ValA), Str(ValB), Str(ValA) >>,
       << Str(ValB), Str(ValA), Str(ValA) >>,
       << Str(ValA), Str(ValA), NaN >> >>

FilterFrame(cols, kinds) ==
    LET pos == SelectSeq([c \in DOMAIN FilterColumns |-> c], LAMBDA c : c \in cols) IN
    [i \in DOMAIN pos |->
        Column(FilterColumns[pos[i]], "object",
               [r \in DOMAIN kinds |-> FilterRowKinds[kinds[r]][pos[i]]])]

FilterDatasets ==
    { FilterFrame(cols, kinds) :
        cols \in SUBSET (DOMAIN FilterColumns),
        kinds \in UNION { [1..n -> DOMAIN FilterRowKinds] : n \in 0..MaxFilterRows } }

Selections == [region : {Todas, ValA}, tipo : {Todos, ValA}, dependencia : {Todas, ValA}]

FilterNames == {"region", "tipo", "dependencia"}

NoCall == [fn |-> "none", arg |-> 0, ret |-> 0]

InitFilter ==
    /\ RqFrIdle
    /\ \E d \in FilterDatasets, f \in Selections :
          heap = <<d>> /\ inp = [id |-> 1, df |-> d, f |-> f]
    /\ out = [applied |-> {}, cur |-> 1, last |-> NoCall]
    /\ pc = "filtering"

\* what a filter call leaves behind
Applied(fn, c) ==
    [applied |-> out.applied \cup {fn}, cur |-> c.ret,
     last |-> [fn |-> fn, arg |-> out.cur, ret |-> c.ret]]

\* df_f = filter_by_region(df_f, filters["region"])
ApplyRegion ==
    /\ pc = "filtering" /\ "region" \notin out.applied
    /\ LET c == filter_by_region(heap, out.cur, inp.f.region) IN
          heap' = c.heap /\ out' = Applied("region", c)
    /\ UNCHANGED <<rq, fr, inp, pc, app>>

\* df_f = filter_by_tipo(df_f, filters["tipo"])
ApplyTipo ==
    /\ pc = "filtering" /\ "tipo" \notin out.applied
    /\ LET c == filter_by_tipo(heap, out.cur, inp.f.tipo) IN
          heap' = c.heap /\ out' = Applied("tipo", c)
    /\ UNCHANGED <<rq, fr, inp, pc, app>>

\* the dependency filter of main
ApplyDependencia ==
    /\ pc = "filtering" /\ "dependencia" \notin out.applied
    /\ LET c == filter_dependencia(heap, out.cur, inp.f.dependencia) IN
          heap' = c.heap /\ out' = Applied("dependencia", c)
    /\ UNCHANGED <<rq, fr, inp, pc, app>>

NextFilter == ApplyRegion \/ ApplyTipo \/ ApplyDependencia

SpecFilter == InitFilter /\ [][NextFilter]_vars

\* the column, the selected value and the sentinel of a filter
FilterColumn(fn) ==
    CASE fn = "region" -> RegionGlosa
      [] fn = "tipo" -> TipoEstablecimientoGlosa
      [] fn = "dependencia" -> DependenciaAdministrativa

FilterValue(fn) == inp.f[fn]

FilterSentinel(fn) == IF fn = "tipo" THEN Todos ELSE Todas

\* C13: a filter called with its "all" sentinel ("Todas", "Todos", "Todas"),
\* or on a dataset without its column, returns a dataset with the rows of its
\* input, in the same order and with the same content.
C13_SentinelIsIdentity ==
    out.last.fn \in FilterNames =>
        LET fn == out.last.fn IN
        (FilterValue(fn) = FilterSentinel(fn) \/ ~HasColumn(heap[out.last.arg], FilterColumn(fn)))
            => heap[out.last.ret] = heap[out.last.arg]

\* C13 witness: on a dataset with rows and its region column, the region
\* filter was called with "Todas" after the tipo filter had dropped a row
C13_Witness ==
    /\ out.last.fn = "region" /\ inp.f.region = Todas
    /\ out.applied = {"tipo", "region"}
    /\ HasColumn(inp.df, RegionGlosa)
    /\ NRows(heap[out.last.ret]) = 1 /\ NRows(inp.df) = 2

\* row r of the input satisfies the selection of filter fn
Satisfies(r, fn) ==
    \/ FilterValue(fn) = FilterSentinel(fn)
    \/ ~HasColumn(inp.df, FilterColumn(fn))
    \/ ColumnOf(inp.df, FilterColumn(fn)).vals[r] = Str(FilterValue(fn))

\* C14: whatever the order in which the three filters were applied, the result
\* holds exactly the rows of the input that satisfy every selection that is
\* not a sentinel, in their original order; after some of the filters, the
\* rows that satisfy those.
C14_ConjunctiveAnyOrder ==
    LET D == inp.df
        keep == [r \in 1..LenDf(D) |-> \A fn \in out.applied : Satisfies(r, fn)]
    IN  heap[out.cur] = RowsWhere(D, keep)

\* C14 witness: all three filters applied, the region filter last, each with a
\* value; of two rows the one that satisfies all three is left
C14_Witness ==
    /\ out.applied = FilterNames /\ out.last.fn = "region"
    /\ inp.f = [region |-> ValA, tipo |-> ValA, dependencia |-> ValA]
    /\ Len(inp.df) = 3 /\ NRows(inp.df) = 2
    /\ NRows(heap[out.cur]) = 1
    /\ heap[out.cur] = FilterFrame({1, 2, 3}, <<1>>)


(***************************************************************************)
(* app.py : main, lines 578-603, on a dataset that was loaded with rows    *)
(* (render_charts, render_data_table, render_conclusions and the helpers   *)
(* of viz.py and utils.py they call)                                       *)
(***************************************************************************)
\* the three plots of an aggregate table never drawing the placeholder
PlotAgg_NeverPlaceholder(df_agg) == [placeholder |-> FALSE, table |-> df_agg]

\* plot_bar_regiones / plot_donut_tipos / plot_bar_dependencia: the
\* "Sin datos disponibles" placeholder for an empty table, else the chart
PlotAgg(df_agg) == [placeholder |-> df_agg.rows = <<>>, table |-> df_agg]

\* render_charts(df): the four figures it can draw
render_charts(df) ==
    { [region |-> PlotAgg(t1), tipo |-> PlotAgg(t2), dependencia |-> PlotAgg(t3),
       comunas |-> t4] :
        t1 \in agg_by_region(df), t2 \in agg_by_tipo_establecimiento(df),
        t3 \in agg_by_dependencia(df), t4 \in TopComunas(df, DefaultTopN) }

EstablecimientoGlosa == <<"E", "s", "t", "a", "b", "l", "e", "c", "i", "m", "i", "e", "n", "t", "o", "G", "l", "o", "s", "a">>

\* render_data_table, line 532
TableDefault ==
    <<EstablecimientoGlosa, RegionGlosa, ComunaGlosa, TipoEstablecimientoGlosa,
      DependenciaAdministrativa>>

\* the value st.multiselect starts with (lines 533-535)
DefaultSelected(df) ==
    LET default == SelectSeq(TableDefault, LAMBDA c : HasColumn(df, c)) IN
    IF default # <<>> THEN default
    ELSE SubSeq(ColumnNames(df), 1, IF Len(df) < 5 THEN Len(df) ELSE 5)

\* the states of the multiselect the model visits: its initial value, every
\* column, and the first column alone
SelectedChoices(df) ==
    {DefaultSelected(df), ColumnNames(df), SubSeq(ColumnNames(df), 1, 1)}

\* df[selected]
SelectColumns(df, selected) == [i \in DOMAIN selected |-> ColumnOf(df, selected[i])]

\* str(n) for a natural number
RECURSIVE FormatNat(_)
FormatNat(n) ==
    IF n < 10 THEN <<Digits[n + 1]>> ELSE Append(FormatNat(n \div 10), Digits[(n % 10) + 1])

\* one cell as to_csv writes it: nothing for an absent value
CsvCell(v, dtype) ==
    CASE v.k = "nan" -> <<>>
      [] v.k = "str" -> v.s
      [] v.k = "num" -> IF dtype = "float64" THEN FormatNat(v.n) \o <<".", "0">>
                        ELSE FormatNat(v.n)

\* sep.join(fields)
RECURSIVE Join(_, _)
Join(fields, sep) ==
    IF fields = <<>> THEN <<>>
    ELSE IF Len(fields) = 1 THEN fields[1]
    ELSE fields[1] \o <<sep>> \o Join(Tail(fields), sep)

\* df_to_csv_bytes(df): df.to_csv(buffer, index=False), as its lines; no
\* name or cell of the model holds a comma, a quote or a line break
df_to_csv_bytes(df) ==
    <<Join(ColumnNames(df), ",")>> \o
    [r \in 1..LenDf(df) |-> Join([i \in DOMAIN df |-> CsvCell(df[i].vals[r], df[i].dtype)], ",")]

\* render_data_table(df) with the multiselect at selected: the table shown
\* and the bytes offered for download
render_data_table(df, selected) ==
    [selected |-> selected, view |-> SelectColumns(df, selected),
     export |-> df_to_csv_bytes(df)]

\* Series.value_counts().head(1): the values counted most often (which of
\* them comes first is left to the sort)
TopValues(c) ==
    LET present == {c.vals[r] : r \in DOMAIN c.vals} \ {NaN}
        count(v) == Cardinality({r \in DOMAIN c.vals : c.vals[r] = v})
    IN  {v \in present : \A w \in present : count(w) <= count(v)}

\* generate_conclusions(kpis, df): which sentences are made and from what
generate_conclusions(kpis, df) ==
    [first |-> <<kpis.total_establecimientos, kpis.regiones, kpis.comunas>>,
     publico |-> IF kpis.pct_publico > 0
                 THEN (IF kpis.pct_publico > 500 THEN "mayoria" ELSE "presencia privada")
                 ELSE "none",
     urgencia |-> kpis.con_urgencia,
     top_region |-> IF HasColumn(df, RegionGlosa) THEN TopValues(ColumnOf(df, RegionGlosa)) ELSE {},
     top_tipo |-> IF HasColumn(df, TipoEstablecimientoGlosa)
                  THEN TopValues(ColumnOf(df, TipoEstablecimientoGlosa)) ELSE {}]

MaxPipeRows == 2

\* datasets as main has them after line 576: at least one row
PipeDatasets ==
    { KpiFrame(cols, kinds, fd) :
        cols \in (SUBSET (DOMAIN KpiColumns)) \ {{}},
        kinds \in UNION { [1..n -> {1, 2}] : n \in 1..MaxPipeRows },
        fd \in BOOLEAN }

NoRun ==
    [steps |-> <<>>, warn |-> <<>>, f |-> [region |-> Todas, tipo |-> Todos, dependencia |-> Todas],
     df_f |-> None, read |-> <<>>, kpis |-> NoResult, charts |-> <<>>, table |-> <<>>,
     conclusions |-> <<>>]

InitPipe ==
    /\ RqFrIdle
    /\ \E d \in PipeDatasets : heap = <<d>> /\ inp = [id |-> 1, df |-> d]
    /\ out = NoRun
    /\ pc = "filters"

\* lines 578-596: the warning, render_filters, the filtered copy, and the
\* no-match warning or the filter banner
PipeFilters ==
    /\ pc = "filters"
    /\ \E v \in validate_required_columns(heap[inp.id], REQUIRED_COLUMNS),
          f \in FilterChoices(heap[inp.id]) :
          LET c == MainFilter(heap, inp.id, f) IN
          /\ heap' = c.heap
          /\ out' = [out EXCEPT !.steps = Append(@, "filters"),
                                !.warn = IF v.ok THEN <<>> ELSE v.missing,
                                !.f = f, !.df_f = c.ret]
          /\ pc' = IF IsEmpty(c.heap[c.ret]) THEN "done" ELSE "kpis"
    /\ UNCHANGED <<rq, fr, inp, app>>

\* line 598: kpis = calculate_kpis(df_f); line 599: render_kpis(kpis)
PipeKpis ==
    /\ pc = "kpis"
    /\ LET k == calculate_kpis(heap[out.df_f]) IN
          /\ out' = [out EXCEPT !.steps = Append(@, "kpis"), !.kpis = k,
                                !.read = Append(@, out.df_f)]
          /\ pc' = IF k.kind = "raise" THEN "raised" ELSE "charts"
    /\ UNCHANGED <<rq, fr, inp, heap, app>>

\* render_charts given the dataset as it was loaded
PipeCharts_Unfiltered ==
    /\ pc = "charts"
    /\ \E ch \in render_charts(heap[inp.id]) :
          out' = [out EXCEPT !.steps = Append(@, "charts"), !.charts = ch,
                             !.read = Append(@, inp.id)]
    /\ pc' = "table"
    /\ UNCHANGED <<rq, fr, inp, heap, app>>

\* line 600: render_charts(df_f)
PipeCharts ==
    /\ pc = "charts"
    /\ \E ch \in render_charts(heap[out.df_f]) :
          out' = [out EXCEPT !.steps = Append(@, "charts"), !.charts = ch,
                             !.read = Append(@, out.df_f)]
    /\ pc' = "table"
    /\ UNCHANGED <<rq, fr, inp, heap, app>>

\* line 601: render_data_table(df_f)
PipeTable ==
    /\ pc = "table"
    /\ \E selected \in SelectedChoices(heap[out.df_f]) :
          out' = [out EXCEPT !.steps = Append(@, "table"),
                             !.table = render_data_table(heap[out.df_f], selected),
                             !.read = Append(@, out.df_f)]
    /\ pc' = "conclusions"
    /\ UNCHANGED <<rq, fr, inp, heap, app>>

\* lines 602-603: render_conclusions(kpis, df_f), render_footer()
PipeConclusions ==
    /\ pc = "conclusions"
    /\ out' = [out EXCEPT !.steps = Append(@, "conclusions"),
                          !.conclusions = generate_conclusions(out.kpis.value, heap[out.df_f]),
                          !.read = Append(@, out.df_f)]
    /\ pc' = "done"
    /\ UNCHANGED <<rq, fr, inp, heap, app>>

\* a widget event: the script runs again on the cached dataset
PipeRerun ==
    /\ pc \in {"done", "raised"}
    /\ heap' = <<heap[inp.id]>>
    /\ out' = NoRun
    /\ pc' = "filters"
    /\ UNCHANGED <<rq, fr, inp, app>>

NextPipe ==
    PipeFilters \/ PipeKpis \/ PipeCharts \/ PipeTable \/ PipeConclusions \/ PipeRerun

SpecPipe == InitPipe /\ [][NextPipe]_vars


\* the rows of D that satisfy every selection of f that is not a sentinel and
\* whose column D has, in order
Conjunction(D, f) ==
    LET ok(r, col, value, sentinel) ==
            value = sentinel \/ ~HasColumn(D, col) \/ ColumnOf(D, col).vals[r] = Str(value)
    IN  RowsWhere(D, [r \in 1..LenDf(D) |->
                        /\ ok(r, RegionGlosa, f.region, Todas)
                        /\ ok(r, TipoEstablecimientoGlosa, f.tipo, Todos)
                        /\ ok(r, DependenciaAdministrativa, f.dependencia, Todas)])

Did(step) == \E i \in DOMAIN out.steps : out.steps[i] = step

MissingRequired(D) == {c \in ToSet(REQUIRED_COLUMNS) : ~HasColumn(D, c)}

C17_OneFilteredDataset ==
    Did("filters") =>
        LET E == Conjunction(inp.df, out.f) IN
        /\ heap[inp.id] = inp.df
        /\ heap[out.df_f] = E
        /\ \A i \in DOMAIN out.read : out.read[i] = out.df_f
        /\ Did("kpis") => out.kpis = calculate_kpis(E)
        /\ Did("charts") => out.charts \in render_charts(E)
        /\ Did("table") =>
              /\ out.table.view = SelectColumns(E, out.table.selected)
              /\ out.table.export = df_to_csv_bytes(E)
        /\ Did("conclusions") =>
              out.conclusions = generate_conclusions(calculate_kpis(E).value, E)

\* C17 witness: a run that filtered two rows down to one has rendered
\* everything from that one row
C17_Witness ==
    /\ pc = "done" /\ Did("conclusions")
    /\ NRows(inp.df) = 2 /\ NRows(heap[out.df_f]) = 1
    /\ out.f.region # Todas
    /\ out.kpis.value.total_establecimientos = 1
    /\ Len(out.table.export) = 2
    /\ Len(out.read) = 4


(***************************************************************************)
(* The two empty outcomes of a run (checked under SpecApp)                 *)
(***************************************************************************)
\* C18: a run whose loaded dataset is missing or has no rows ends with the
\* load-failure message and without the filters; a run whose dataset has rows
\* of which none matches the selections ends with the no-match message and
\* without KPIs, charts or table; no run shows both messages, and each message
\* is shown only in its own case.
C18_TwoEmptyOutcomes ==
    LET nothing == app.df = None \/ IsEmpty(heap[app.df])
        nomatch == ~nothing /\ app.df_f # None /\ IsEmpty(heap[app.df_f])
    IN  /\ Shown("error_no_data") => (nothing /\ ~Shown("filters") /\ pc = "done")
        /\ Shown("warn_no_match") =>
              /\ nomatch /\ pc = "done" /\ Shown("filters")
              /\ \A d \in {"kpis", "charts", "table"} : ~Shown(d)
        /\ ~(Shown("error_no_data") /\ Shown("warn_no_match"))
        /\ pc = "done" =>
              /\ nothing => Shown("error_no_data")
              /\ nomatch => Shown("warn_no_match")

\* C18 witness: a run on a loaded dataset of three rows has ended with the
\* no-match message after a region and a tipo were selected
C18_Witness ==
    /\ pc = "done" /\ Shown("warn_no_match")
    /\ app.df # None /\ NRows(heap[app.df]) = 3
    /\ app.shown = <<"hero", "sidebar", "filters", "warn_no_match">>


(***************************************************************************)
(* The export of the data table (checked under SpecPipe)                   *)
(***************************************************************************)
\* C19: the exported CSV is comma-delimited without an index column, and its
\* header row is the list of the columns selected as visible in the table, in
\* every state of the selection.
C19_ExportIsSelection ==
    Did("table") =>
        LET lines == out.table.export
            header == IF lines[1] = <<>> THEN <<>> ELSE Split(lines[1], ",")
        IN  /\ header = out.table.selected
            /\ \A i \in 2..Len(lines) :
                  Len(Split(lines[i], ",")) = Len(out.table.selected)


(***************************************************************************)
(* app.py : load_data under @st.cache_data(ttl=3600), and the clearing of  *)
(* the cache by "Actualizar" (render_sidebar, 429-431), with a clock       *)
(***************************************************************************)
TTL == 3600

\* the clock advances by Tick, up to MaxTicks times
Tick == 1200
MaxTicks == 4

CacheUrls == {"listed", "fallback"}

\* what each URL can serve, so that a dataset tells the URL it came from:
\* a one-column CSV or an empty body, a two-column CSV or a malformed one
CsvListed == << <<"R">>, <<"A">> >>

ServedBy(u) == IF u = "listed" THEN {CsvListed, CsvEmpty} ELSE {CsvOther, CsvMalformed}

\* the GETs of a load_data body in this machine: all answered, or all failed
CacheOutcomeLists ==
    { [k \in 1..MAX_RETRIES |-> o] : o \in {x \in AppOutcomes : x.status \in {0, 200}} }

NoTimedEntry == [has |-> FALSE, at |-> 0, none |-> TRUE, value |-> <<>>]

\* an entry that never expires
CacheValid_NoExpiry(e, now) == e.has

\* the entry stored at e.at can be served at time now
CacheValid(e, now) == e.has /\ now - e.at < TTL

\* a cache that stores datasets only and runs the body again after a failure
cached_load_data_SuccessOnly(cache, now, url, outcomes, csv_text) ==
    IF CacheValid(cache[url], now)
    THEN [cache |-> cache,
          served |-> [url |-> url, hit |-> TRUE, gets |-> 0,
                      none |-> cache[url].none, value |-> cache[url].value]]
    ELSE LET l == load_data(outcomes, csv_text) IN
         [cache |-> IF l.none THEN cache
                    ELSE [cache EXCEPT ![url] =
                            [has |-> TRUE, at |-> now, none |-> l.none, value |-> l.value]],
          served |-> [url |-> url, hit |-> FALSE, gets |-> l.gets,
                      none |-> l.none, value |-> l.value]]

\* load_data(url) through the cache at time now: the stored result of the
\* entry of url while it is valid, else the body, whose result is stored
cached_load_data(cache, now, url, outcomes, csv_text) ==
    IF CacheValid(cache[url], now)
    THEN [cache |-> cache,
          served |-> [url |-> url, hit |-> TRUE, gets |-> 0,
                      none |-> cache[url].none, value |-> cache[url].value]]
    ELSE LET l == load_data(outcomes, csv_text) IN
         [cache |-> [cache EXCEPT ![url] =
                        [has |-> TRUE, at |-> now, none |-> l.none, value |-> l.value]],
          served |-> [url |-> url, hit |-> FALSE, gets |-> l.gets,
                      none |-> l.none, value |-> l.value]]

NoRequest ==
    [url |-> "none", hit |-> FALSE, gets |-> 0, none |-> TRUE, value |-> <<>>,
     at |-> 0, loaded |-> FALSE, loaded_at |-> 0, loaded_none |-> TRUE,
     loaded_value |-> <<>>, cleared |-> FALSE, error_no_data |-> FALSE]

NoLoadYet == [loaded |-> FALSE, at |-> 0, none |-> TRUE, value |-> <<>>, cleared |-> FALSE]

\* cache: the entries of load_data; now: the clock; last: the latest call of
\* load_data, with what was known of its URL when it was made; loads: for each
\* URL the latest run of the body, and whether the cache was cleared since
InitCache ==
    /\ RqFrIdle
    /\ inp = [now |-> 0, loads |-> [u \in CacheUrls |-> NoLoadYet]]
    /\ out = NoRequest
    /\ heap = [u \in CacheUrls |-> NoTimedEntry]
    /\ pc = "idle"

\* a run of main reaches df = load_data(url) and tests the result (lines
\* 571-576): error_no_data tells that the load-failure message was shown
CacheRequest ==
    /\ \E u \in CacheUrls, outcomes \in CacheOutcomeLists : \E csv_text \in ServedBy(u) :
          LET c == cached_load_data(heap, inp.now, u, outcomes, csv_text)
              before == inp.loads[u]
              df == IF c.served.none THEN None ELSE 1
              objects == IF c.served.none THEN <<>> ELSE <<c.served.value>>
          IN  /\ heap' = c.cache
              /\ out' = [url |-> u, hit |-> c.served.hit, gets |-> c.served.gets,
                         none |-> c.served.none, value |-> c.served.value,
                         at |-> inp.now, loaded |-> before.loaded,
                         loaded_at |-> before.at, loaded_none |-> before.none,
                         loaded_value |-> before.value, cleared |-> before.cleared,
                         error_no_data |-> NoData(objects, df)]
              /\ inp' = IF c.served.hit THEN inp
                        ELSE [inp EXCEPT !.loads[u] =
                                [loaded |-> TRUE, at |-> inp.now, none |-> c.served.none,
                                 value |-> c.served.value, cleared |-> FALSE]]
    /\ UNCHANGED <<rq, fr, pc, app>>

\* time passes
CacheTick ==
    /\ inp.now < MaxTicks * Tick
    /\ inp' = [inp EXCEPT !.now = @ + Tick]
    /\ UNCHANGED <<rq, fr, out, pc, heap, app>>

\* "Actualizar": st.cache_data.clear()
CacheClear ==
    /\ heap' = [u \in CacheUrls |-> NoTimedEntry]
    /\ LET marked == [u \in CacheUrls |-> [inp.loads[u] EXCEPT !.cleared = TRUE]]
       IN  inp' = [inp EXCEPT !.loads = marked]
    /\ UNCHANGED <<rq, fr, out, pc, app>>

NextCache == CacheRequest \/ CacheTick \/ CacheClear

SpecCache == InitCache /\ [][NextCache]_vars

\* the datasets load_data can make of what URL u serves
DatasetsOf(u) ==
    { CleanSteps(load_csv_from_text(t, ";").df) :
        t \in {x \in ServedBy(u) : load_csv_from_text(x, ";").error = "none"} }

\* C20: a call of load_data answered from the cache gets the result of the
\* latest run of the body for the same URL, made less than 3600 time units
\* before and with no clearing of the cache in between; a dataset given for a
\* URL is one that this URL served; and a call made when the URL was never
\* loaded, or 3600 or more time units after its latest load, or after the
\* cache was cleared, runs the body: a fresh fetch.
C20_CacheKeyedAndBounded ==
    out.url \in CacheUrls =>
        /\ out.hit =>
              /\ out.loaded /\ ~out.cleared
              /\ out.none = out.loaded_none /\ out.value = out.loaded_value
              /\ out.at - out.loaded_at <= TTL
              /\ out.gets = 0
        /\ ~out.none => out.value \in DatasetsOf(out.url)
        /\ (~out.loaded \/ out.cleared \/ out.at - out.loaded_at >= TTL) =>
              (~out.hit /\ (out.gets >= 1))

\* C20 witness: a call for "listed" was answered from the cache with the
\* dataset loaded 2400 time units before, while the cache also held an entry
\* of the other URL
C20_Witness ==
    /\ out.url = "listed" /\ out.hit /\ ~out.none
    /\ out.at - out.loaded_at = 2 * Tick
    /\ heap["fallback"].has /\ ~heap["fallback"].none
    /\ heap["fallback"].value # out.value


(***************************************************************************)
(* Order of groups with equal counts (checked under SpecAgg)               *)
(***************************************************************************)
\* the place of the group labelled v in the table groupby produced
GroupPlace(groups, v) == CHOOSE g \in DOMAIN groups : groups[g].label = v

C22_FailureMemoized ==
    out.url \in CacheUrls =>
        LET latest == inp.loads[out.url] IN
        /\ ~out.hit =>
              /\ latest.loaded /\ latest.at = out.at /\ latest.none = out.none
              /\ \/ latest.cleared
                 \/ heap[out.url] =
                        [has |-> TRUE, at |-> out.at, none |-> out.none, value |-> out.value]
        /\ (out.loaded /\ out.loaded_none /\ ~out.cleared /\ out.at - out.loaded_at < TTL) =>
              /\ out.hit /\ out.gets = 0
              /\ out.none /\ out.error_no_data
        /\ (out.loaded /\ out.loaded_none /\ (out.cleared \/ out.at - out.loaded_at >= TTL)) =>
              (~out.hit /\ out.gets >= 1)
        /\ out.none => out.error_no_data

\* C22 witness: a run got the None stored by the load that failed 2400 time
\* units before, without a GET, and showed the load-failure message
C22_Witness ==
    /\ out.url \in CacheUrls /\ out.hit /\ out.none /\ out.gets = 0
    /\ out.loaded_none /\ out.at - out.loaded_at = 2 * Tick
    /\ out.error_no_data

=============================================================================
